---------------------------- MODULE Spec2Model ----------------------------
(***************************************************************************)
(* Supabase <-> Google Sheets attendance sync.                             *)
(*                                                                         *)
(* The model covers the field normalizer (parseDate, parseTime), the       *)
(* incremental inbound handler (src/unnamed/part_000), the full-reimport   *)
(* inbound handler (src/functions/sync-from-google-sheets/index.ts) and    *)
(* the outbound exporter (src/functions/sync-to-google-sheets/index.ts),   *)
(* running against one shared spreadsheet and one shared                   *)
(* employee_attendance table.                                              *)
(*                                                                         *)
(* A JavaScript string is a sequence of one-character strings, so that     *)
(* trim, the regular expressions, split, padStart and parseInt are         *)
(* computed character by character.  null is the one-element sequence     *)
(* NULL, which no character sequence equals.                               *)
(***************************************************************************)
EXTENDS Integers, Sequences, FiniteSets, TLC

VARIABLES
    sheet,      \* the spreadsheet grid as values.get('A:I') returns it
    db,         \* the employee_attendance table: records in insertion order
    clock,      \* invocations started so far; stands for new Date()
    edits,      \* user edits of the spreadsheet made so far
    run,        \* per invocation slot: the handler's locals and position
    nIn,        \* normalizer harness: the input string
    nOut,       \* normalizer harness: parseDate(nIn)
    nOut2,      \* normalizer harness: parseDate(parseDate(nIn))
    npc         \* normalizer harness: position

vars == <<sheet, db, clock, edits, run, nIn, nOut, nOut2, npc>>

-----------------------------------------------------------------------------
(* Bounds of the model *)

MaxRows  == 1     \* data rows the spreadsheet may hold
MaxEdits == 1     \* user edits of the spreadsheet
MaxClock == 2     \* invocations started
MaxShort == 3     \* length of the exhaustively enumerated normalizer inputs
MaxDb    == 3     \* records the table holds when an export begins
MaxBatchRows == 25  \* data rows of the spreadsheets of the batch loop

-----------------------------------------------------------------------------
(* Characters and strings *)

NULL == <<"NULL">>

Digit == {"0", "1", "2", "3", "4", "5", "6", "7", "8", "9"}

DigitChars == <<"0", "1", "2", "3", "4", "5", "6", "7", "8", "9">>

UpperChars == <<"A", "B", "C", "D", "E", "F", "G", "H", "I", "J", "K", "L", "M",
                "N", "O", "P", "Q", "R", "S", "T", "U", "V", "W", "X", "Y", "Z">>

LowerChars == <<"a", "b", "c", "d", "e", "f", "g", "h", "i", "j", "k", "l", "m",
                "n", "o", "p", "q", "r", "s", "t", "u", "v", "w", "x", "y", "z">>

\* [A-Za-z]
Letter == {UpperChars[i] : i \in 1..26} \cup {LowerChars[i] : i \in 1..26}

\* \s, and the characters trim() removes
WS == {" "}

DigitVal(c) == (CHOOSE i \in 1..10 : DigitChars[i] = c) - 1

\* String.prototype.toLowerCase, one character
LowerChar(c) ==
    IF \E i \in 1..26 : UpperChars[i] = c
    THEN LowerChars[CHOOSE i \in 1..26 : UpperChars[i] = c]
    ELSE c

\* A toLowerCase that was left out: the string as it is
keepCase(s) == s

toLowerCase(s) == [i \in 1..Len(s) |-> LowerChar(s[i])]

\* A trim that removes one white-space character at most from each end, as
\* replace(/^\s|\s$/g, '') would
trimOnce(s) ==
    LET a == IF Len(s) >= 1 /\ s[1] \in WS THEN 2 ELSE 1
        b == IF Len(s) >= 1 /\ s[Len(s)] \in WS THEN Len(s) - 1 ELSE Len(s)
    IN  IF a > b THEN <<>> ELSE SubSeq(s, a, b)

\* String.prototype.trim
trim(s) ==
    IF \A i \in 1..Len(s) : s[i] \in WS
    THEN <<>>
    ELSE LET a == CHOOSE i \in 1..Len(s) :
                      s[i] \notin WS /\ \A j \in 1..(i - 1) : s[j] \in WS
             b == CHOOSE i \in 1..Len(s) :
                      s[i] \notin WS /\ \A j \in (i + 1)..Len(s) : s[j] \in WS
         IN  SubSeq(s, a, b)

\* The characters of s at positions a..b that exist
Slice(s, a, b) ==
    LET lo == IF a < 1 THEN 1 ELSE a
        hi == IF b > Len(s) THEN Len(s) ELSE b
    IN  IF lo > hi THEN <<>> ELSE SubSeq(s, lo, hi)

\* String.prototype.padStart(n, '0')
padStart0(s, n) ==
    IF Len(s) >= n THEN s ELSE [i \in 1..(n - Len(s)) |-> "0"] \o s

\* Number.prototype.toString for a natural number
RECURSIVE toString(_)
toString(n) ==
    IF n < 10 THEN <<DigitChars[n + 1]>>
    ELSE toString(n \div 10) \o <<DigitChars[(n % 10) + 1]>>

\* The value of a string of decimal digits
RECURSIVE DigitsValue(_)
DigitsValue(s) ==
    IF s = <<>> THEN 0
    ELSE 10 * DigitsValue(SubSeq(s, 1, Len(s) - 1)) + DigitVal(s[Len(s)])

\* How many characters of class C follow each other in s from position p on,
\* counting at most cap: a greedy C{0,cap}
RunLen(s, p, C, cap) ==
    CHOOSE k \in 0..cap :
        /\ \A i \in 0..(k - 1) : p + i <= Len(s) /\ s[p + i] \in C
        /\ (k = cap \/ p + k > Len(s) \/ s[p + k] \notin C)

\* String.prototype.includes
includes(s, t) ==
    \E p \in 1..(Len(s) - Len(t) + 1) : SubSeq(s, p, p + Len(t) - 1) = t

\* String.prototype.split(':')
RECURSIVE split(_)
split(s) ==
    IF \A i \in 1..Len(s) : s[i] # ":"
    THEN <<s>>
    ELSE LET p == CHOOSE i \in 1..Len(s) :
                      s[i] = ":" /\ \A j \in 1..(i - 1) : s[j] # ":"
         IN  <<SubSeq(s, 1, p - 1)>> \o split(SubSeq(s, p + 1, Len(s)))

\* parseInt(s) without a radix: leading white space, an optional sign, then the
\* longest prefix of decimal digits; NaN when there is none
parseInt(s) ==
    LET w == RunLen(s, 1, WS, Len(s))
        g == IF w + 1 <= Len(s) /\ s[w + 1] \in {"+", "-"} THEN 1 ELSE 0
        d == RunLen(s, w + g + 1, Digit, Len(s))
        v == DigitsValue(Slice(s, w + g + 1, w + g + d))
    IN  IF d = 0 THEN [nan |-> TRUE, val |-> 0]
        ELSE [nan |-> FALSE,
              val |-> IF g = 1 /\ s[w + 1] = "-" THEN 0 - v ELSE v]

-----------------------------------------------------------------------------
(* parseDate *)

\* /^\d{4}-\d{2}-\d{2}$/.test(str)
IsIsoDate(str) ==
    /\ Len(str) = 10
    /\ \A i \in {1, 2, 3, 4, 6, 7, 9, 10} : str[i] \in Digit
    /\ str[5] = "-"
    /\ str[8] = "-"

\* /(\d{1,2})\s+([A-Za-z]{3})\s+(\d{2,4})/ tried at position p.  The classes
\* that follow each other are disjoint, so each greedy group takes its whole
\* run and backtracking finds nothing more.
DateMatchAt(str, p) ==
    LET d  == RunLen(str, p, Digit, 2)
        w1 == RunLen(str, p + d, WS, Len(str))
        q  == p + d + w1
        w2 == RunLen(str, q + 3, WS, Len(str))
        y  == RunLen(str, q + 3 + w2, Digit, 4)
    IN  [ok    |-> /\ d >= 1
                   /\ w1 >= 1
                   /\ RunLen(str, q, Letter, 3) = 3
                   /\ w2 >= 1
                   /\ y >= 2,
         day   |-> Slice(str, p, p + d - 1),
         month |-> Slice(str, q, q + 2),
         year  |-> Slice(str, q + 3 + w2, q + 3 + w2 + y - 1)]

monthNames ==
    << <<"J", "a", "n">>, <<"F", "e", "b">>, <<"M", "a", "r">>, <<"A", "p", "r">>,
       <<"M", "a", "y">>, <<"J", "u", "n">>, <<"J", "u", "l">>, <<"A", "u", "g">>,
       <<"S", "e", "p">>, <<"O", "c", "t">>, <<"N", "o", "v">>, <<"D", "e", "c">> >>

\* monthNames.findIndex(...) + 1, and 0 for -1
MonthNumber(month) ==
    LET hit == {m \in 1..12 :
                   toLowerCase(monthNames[m]) = Slice(toLowerCase(month), 1, 3)}
    IN  IF hit = {} THEN 0 ELSE CHOOSE m \in hit : TRUE

\* The tail of parseDate once str = dateStr.trim() is known
ParseTrimmedDate(str) ==
    IF IsIsoDate(str) THEN str
    ELSE LET at == {p \in 1..Len(str) : DateMatchAt(str, p).ok}
         IN  IF at = {} THEN str
             ELSE LET p == CHOOSE x \in at : \A z \in at : x <= z
                      m == DateMatchAt(str, p)
                      monthIndex == MonthNumber(m.month)
                      fullYear == IF Len(m.year) = 2
                                  THEN <<"2", "0">> \o m.year
                                  ELSE m.year
                  IN  IF monthIndex = 0 THEN str
                      ELSE fullYear \o <<"-">>
                           \o padStart0(toString(monthIndex), 2) \o <<"-">>
                           \o padStart0(m.day, 2)

parseDate(dateStr) ==
    IF dateStr = <<>> \/ trim(dateStr) = <<>> THEN <<>>
    ELSE ParseTrimmedDate(trim(dateStr))

-----------------------------------------------------------------------------
(* parseTime *)

\* /(\d{1,2}):(\d{2})\s*(am|pm)/i tried at position p
TimeMatchAt(str, p) ==
    LET d == RunLen(str, p, Digit, 2)
        c == p + d
        w == RunLen(str, c + 3, WS, Len(str))
        a == c + 3 + w
    IN  [ok     |-> /\ d >= 1
                    /\ c <= Len(str) /\ str[c] = ":"
                    /\ RunLen(str, c + 1, Digit, 2) = 2
                    /\ a + 1 <= Len(str)
                    /\ LowerChar(str[a]) \in {"a", "p"}
                    /\ LowerChar(str[a + 1]) = "m",
         hour   |-> Slice(str, p, p + d - 1),
         minute |-> Slice(str, c + 1, c + 2),
         ampm   |-> Slice(str, a, a + 1)]

\* The am/pm branch: the formatted time, or NULL when the pattern does not match
ParseAmPm(str) ==
    LET at == {p \in 1..Len(str) : TimeMatchAt(str, p).ok}
    IN  IF at = {} THEN NULL
        ELSE LET p == CHOOSE x \in at : \A z \in at : x <= z
                 m == TimeMatchAt(str, p)
                 h == parseInt(m.hour).val
                 hourNum == IF toLowerCase(m.ampm) = <<"p", "m">> /\ h < 12
                            THEN h + 12
                            ELSE IF toLowerCase(m.ampm) = <<"a", "m">> /\ h = 12
                                 THEN 0
                                 ELSE h
             IN  padStart0(toString(hourNum), 2) \o <<":">> \o m.minute
                 \o <<":", "0", "0">>

InRange(n, lo, hi) == ~n.nan /\ n.val >= lo /\ n.val <= hi

\* The HH:MM:SS / HH:MM branch
ParseColon(str) ==
    LET parts  == split(str)
        hour   == padStart0(parts[1], 2)
        minute == padStart0(parts[2], 2)
        second == IF Len(parts) >= 3 /\ parts[3] # <<>>
                  THEN padStart0(parts[3], 2)
                  ELSE <<"0", "0">>
    IN  IF /\ Len(parts) >= 2
           /\ InRange(parseInt(hour), 0, 23)
           /\ InRange(parseInt(minute), 0, 59)
           /\ InRange(parseInt(second), 0, 59)
        THEN hour \o <<":">> \o minute \o <<":">> \o second
        ELSE NULL

parseTime(timeStr) ==
    IF \/ timeStr = <<>>
       \/ trim(timeStr) = <<>>
       \/ timeStr = <<"-">>
       \/ toLowerCase(timeStr) = <<"n", "u", "l", "l">>
    THEN NULL
    ELSE LET str == trim(timeStr)
             lower == toLowerCase(str)
             ampm == IF includes(lower, <<"a", "m">>) \/ includes(lower, <<"p", "m">>)
                     THEN ParseAmPm(str)
                     ELSE NULL
         IN  IF str[1] = "-" THEN NULL
             ELSE IF ampm # NULL THEN ampm
             ELSE IF includes(str, <<":">>) THEN ParseColon(str)
             ELSE NULL

-----------------------------------------------------------------------------
(* The spreadsheet, as the Sheets API reads and writes it *)

\* Column I markers.  The check mark and the cross of the source are left out.
Saved  == <<"S", "a", "v", "e", "d">>
Failed == <<"F", "a", "i", "l", "e", "d">>

\* values.get leaves out the trailing empty cells of a row
RECURSIVE NormRow(_)
NormRow(row) ==
    IF row # <<>> /\ row[Len(row)] = <<>>
    THEN NormRow(SubSeq(row, 1, Len(row) - 1))
    ELSE row

\* values.get leaves out the trailing empty rows
RECURSIVE NormSheet(_)
NormSheet(s) ==
    IF s # <<>> /\ s[Len(s)] = <<>>
    THEN NormSheet(SubSeq(s, 1, Len(s) - 1))
    ELSE s

\* The row with its cell in column c set to v
SetCell(row, c, v) ==
    LET n == IF Len(row) > c THEN Len(row) ELSE c
    IN  NormRow([k \in 1..n |->
                    IF k = c THEN v ELSE IF k <= Len(row) THEN row[k] ELSE <<>>])

\* values.update of range I2:I(n+1) with values, n = Len(values)
UpdateColumnI(s, values) ==
    LET n == IF Len(s) > Len(values) + 1 THEN Len(s) ELSE Len(values) + 1
    IN  NormSheet([j \in 1..n |->
                      IF j >= 2 /\ j <= Len(values) + 1
                      THEN SetCell(IF j <= Len(s) THEN s[j] ELSE <<>>, 9, values[j - 1][1])
                      ELSE s[j]])

-----------------------------------------------------------------------------
(* The handlers' row processing *)

batchSize == 10

\* rows.slice(1)
DataRowsOf(rows) == IF Len(rows) <= 1 THEN <<>> ELSE SubSeq(rows, 2, Len(rows))

\* paddedRow[k]?.trim() || '' of a row padded to at least `width` cells:
\* cells past the end of the row read as undefined
Cell(row, k) == IF k <= Len(row) THEN trim(row[k]) ELSE <<>>

\* A skip test that looks the row up by its index in dataRows, not by its
\* row number in the sheet
AlreadySyncedByIndex(syncedRows, rowNumber) == (rowNumber - 2) \in syncedRows

\* part_000 line 198: syncedRows.has(rowNumber)
AlreadySynced(syncedRows, rowNumber) == rowNumber \in syncedRows

\* A padding that never throws: a row of 9 cells is taken as it is
PadNeverThrows(row) == FALSE

\* part_000 line 205: Array(8 - row.length) throws a RangeError for a row of
\* 9 cells; the catch of line 236 logs it and the loop goes on
PadThrows(row) == 8 - Len(row) < 0

\* A required-field check with && in place of ||
MissingAllRequired(date, employeeId, employeeName) ==
    date = <<>> /\ employeeId = <<>> /\ employeeName = <<>>

\* part_000 line 213: !date || !employeeId || !employeeName
MissingRequired(date, employeeId, employeeName) ==
    date = <<>> \/ employeeId = <<>> \/ employeeName = <<>>

\* part_000 lines 221-232
NewRecord(row, rowNumber, now) ==
    [date             |-> parseDate(Cell(row, 1)),
     employee_id      |-> Cell(row, 2),
     employee_name    |-> Cell(row, 3),
     email_id         |-> Cell(row, 4),
     first_in         |-> parseTime(Cell(row, 5)),
     last_out         |-> parseTime(Cell(row, 6)),
     late_login       |-> parseTime(Cell(row, 7)),
     shift_name       |-> Cell(row, 8),
     sheet_row_number |-> rowNumber,
     sheet_synced_at  |-> now]

\* A row loop without the skip of line 198
RowIsNewNoSkip(dataRows, syncedRows, i) ==
    /\ ~PadThrows(dataRows[i + 1])
    /\ ~MissingRequired(parseDate(Cell(dataRows[i + 1], 1)),
                        Cell(dataRows[i + 1], 2),
                        Cell(dataRows[i + 1], 3))

\* part_000 lines 197-238: does data row i (sheet row i + 2) yield a record?
RowIsNew(dataRows, syncedRows, i) ==
    /\ ~AlreadySynced(syncedRows, i + 2)
    /\ ~PadThrows(dataRows[i + 1])
    /\ ~MissingRequired(parseDate(Cell(dataRows[i + 1], 1)),
                        Cell(dataRows[i + 1], 2),
                        Cell(dataRows[i + 1], 3))

\* part_000 lines 187-239, newRecords after the loop has handled data rows 0..n-1
RECURSIVE BuildNewRecords(_, _, _, _)
BuildNewRecords(dataRows, syncedRows, now, n) ==
    IF n <= 0 THEN <<>>
    ELSE BuildNewRecords(dataRows, syncedRows, now, n - 1)
         \o (IF RowIsNew(dataRows, syncedRows, n - 1)
             THEN <<NewRecord(dataRows[n], n + 1, now)>>
             ELSE <<>>)

\* A row loop that pushes the marker after the skip test: one marker per row
\* that is not skipped
BuildRowStatusAfterSkip(dataRows, syncedRows) ==
    [i \in 1..Cardinality({k \in 1..Len(dataRows) : (k + 1) \notin syncedRows})
        |-> <<Saved>>]

\* part_000 lines 188-195, rowStatus after the loop: one push per data row,
\* before the skip test
BuildRowStatus(dataRows, syncedRows) == [i \in 1..Len(dataRows) |-> <<Saved>>]

\* part_000 lines 175-180
SyncedRowsOf(existingRecords) ==
    {existingRecords[k].sheet_row_number : k \in
        {x \in 1..Len(existingRecords) : existingRecords[x].sheet_row_number # 0}}

\* sync-from-google-sheets lines 75-111: the record of one row.  The insert
\* names neither sheet_row_number nor sheet_synced_at: 0 stands for the NULL
\* the table stores, and the column default NOW() is filled in by DbInsert.
FullRecord(row) ==
    [date             |-> parseDate(Cell(row, 1)),
     employee_id      |-> Cell(row, 2),
     employee_name    |-> Cell(row, 3),
     email_id         |-> Cell(row, 4),
     first_in         |-> parseTime(Cell(row, 5)),
     last_out         |-> parseTime(Cell(row, 6)),
     late_login       |-> parseTime(Cell(row, 7)),
     shift_name       |-> Cell(row, 8),
     sheet_row_number |-> 0,
     sheet_synced_at  |-> 0]

\* sync-from-google-sheets lines 112-121
FullKeeps(record) ==
    /\ trim(record.date) # <<>>
    /\ trim(record.employee_id) # <<>>
    /\ trim(record.employee_name) # <<>>

\* sync-from-google-sheets lines 112-121: what .filter does with one element
FilterRecord(record) == IF FullKeeps(record) THEN <<record>> ELSE <<>>

\* sync-from-google-sheets lines 74-121: map, then filter
RECURSIVE BuildAttendanceRecords(_, _)
BuildAttendanceRecords(dataRows, n) ==
    IF n <= 0 THEN <<>>
    ELSE BuildAttendanceRecords(dataRows, n - 1)
         \o FilterRecord(FullRecord(dataRows[n]))

\* A slice that takes one record more: slice(i, i + batchSize + 1)
BatchAtOverlap(records, i) ==
    Slice(records, i + 1, i + batchSize + 1)

\* newRecords.slice(i, i + batchSize), i counted from 0
BatchAt(records, i) ==
    Slice(records, i + 1, i + batchSize)

\* sync-from-google-sheets lines 183-185: the row numbers pushed for a failed batch
FailedRowsOf(records, i) ==
    LET hi == IF i + batchSize < Len(records) THEN i + batchSize ELSE Len(records)
    IN  [k \in 1..(hi - i) |-> (i + k - 1) + 2]

\* sync-from-google-sheets lines 199-209
StatusUpdates(dataRows, failedRows, insertedCount) ==
    [k \in 1..Len(dataRows) |->
        IF \E x \in 1..Len(failedRows) : failedRows[x] = k + 1
        THEN <<Failed>>
        ELSE IF k - 1 < insertedCount THEN <<Saved>> ELSE << <<>> >>]

\* src/sql/tables.sql lines 4-6: date DATE NOT NULL, employee_id and
\* employee_name NOT NULL.  A batch the table can take: every date is of the
\* form YYYY-MM-DD and the two texts are there
Storable(batch) ==
    \A k \in 1..Len(batch) :
        /\ IsIsoDate(batch[k].date)
        /\ batch[k].employee_id # <<>>
        /\ batch[k].employee_name # <<>>

\* A table with a unique constraint on sheet_row_number whose conflicts are
\* ignored: a record whose row number is stored already is left out
DbInsertUnique(table, batch, now) ==
    LET kept == SelectSeq(batch, LAMBDA rec :
                    \/ rec.sheet_row_number = 0
                    \/ \A k \in 1..Len(table) :
                           table[k].sheet_row_number # rec.sheet_row_number)
    IN  table \o [k \in 1..Len(kept) |->
                     IF kept[k].sheet_synced_at = 0
                     THEN [kept[k] EXCEPT !.sheet_synced_at = now]
                     ELSE kept[k]]

\* A table on which an insert also stamps the records it holds, as a trigger
\* that sets sheet_synced_at of every row would
DbInsertTouching(table, batch, now) ==
    [k \in 1..Len(table) |-> [table[k] EXCEPT !.sheet_synced_at = now]]
    \o [k \in 1..Len(batch) |-> batch[k]]

\* POST /rest/v1/employee_attendance answered 2xx: the table of
\* src/README.md lines 31-44 has no unique constraint, every record is stored;
\* sheet_synced_at defaults to NOW()
DbInsert(table, batch, now) ==
    table \o [k \in 1..Len(batch) |->
                 IF batch[k].sheet_synced_at = 0
                 THEN [batch[k] EXCEPT !.sheet_synced_at = now]
                 ELSE batch[k]]

-----------------------------------------------------------------------------
(* The outbound exporter's date range, query and rows,                     *)
(* src/functions/sync-to-google-sheets/index.ts                            *)

\* new Date().toISOString().split('T')[0]: the day of the invocation
Today == <<"2", "0", "2", "5", "-", "0", "1", "-", "2", "0">>

\* new Date(today.getFullYear(), today.getMonth(), 1).toISOString()
\* .split('T')[0], the runtime's time zone being UTC
FirstDay == SubSeq(Today, 1, 8) \o <<"0", "1">>

\* /^\d{4}\/\d{2}\/\d{2}$/: the one form other than YYYY-MM-DD that the
\* model lets new Date(str) read
IsSlashDate(str) ==
    /\ Len(str) = 10
    /\ \A i \in {1, 2, 3, 4, 6, 7, 9, 10} : str[i] \in Digit
    /\ str[5] = "/"
    /\ str[8] = "/"

\* The month and the day of a text of ten characters are those of a
\* calendar date (months of 31, 30 and 28 days; 2025 is no leap year)
ValidCalendarDate(str) ==
    LET m == DigitsValue(Slice(str, 6, 7))
        d == DigitsValue(Slice(str, 9, 10))
    IN  /\ m >= 1 /\ m <= 12
        /\ d >= 1
        /\ d <= (IF m = 2 THEN 28 ELSE IF m \in {4, 6, 9, 11} THEN 30 ELSE 31)

\* new Date(str) followed by toISOString().split('T')[0]: NULL for an
\* Invalid Date
DateToIso(str) ==
    IF IsSlashDate(str) /\ ValidCalendarDate(str)
    THEN SubSeq(str, 1, 4) \o <<"-">> \o SubSeq(str, 6, 7) \o <<"-">>
         \o SubSeq(str, 9, 10)
    ELSE NULL

\* undefined: a field the request body does not have
UNDEFINED == <<"UNDEFINED">>

\* JavaScript falsiness of a field of the body: undefined, null and ''
Falsy(v) == v = UNDEFINED \/ v = NULL \/ v = <<>>

\* a || b
OrElse(a, b) == IF Falsy(a) THEN b ELSE a

\* lines 10-34
validateDate(dateStr) ==
    IF \/ Falsy(dateStr)
       \/ dateStr = <<"u", "n", "d", "e", "f", "i", "n", "e", "d">>
       \/ dateStr = <<"n", "u", "l", "l">>
    THEN Today
    ELSE IF IsIsoDate(trim(dateStr)) THEN trim(dateStr)
    ELSE IF DateToIso(trim(dateStr)) # NULL THEN DateToIso(trim(dateStr))
    ELSE Today

\* lines 82-87: the check after the resolution
RangeOrToday(range) ==
    IF \/ range.startDate = <<>> \/ range.endDate = <<>>
       \/ range.startDate = <<"u", "n", "d", "e", "f", "i", "n", "e", "d">>
       \/ range.endDate = <<"u", "n", "d", "e", "f", "i", "n", "e", "d">>
    THEN [startDate |-> Today, endDate |-> Today]
    ELSE range

\* lines 44-87: startDate and endDate of a request body.  text is what
\* req.text() and JSON.parse make of the body: "empty" (nothing or white
\* space), "malformed" (JSON.parse throws), "null" (the JSON value null, whose
\* fields cannot be read) or "object"
ResolveRange(body) ==
    RangeOrToday(
        IF body.text = "object"
        THEN [startDate |-> validateDate(OrElse(body.startDate, body.start_date)),
              endDate   |-> validateDate(OrElse(body.endDate, body.end_date))]
        ELSE [startDate |-> FirstDay, endDate |-> Today])

\* The number YYYYMMDD of a date YYYY-MM-DD
DateNumber(date) ==
    DigitsValue(SubSeq(date, 1, 4) \o SubSeq(date, 6, 7) \o SubSeq(date, 9, 10))

\* The code of a character in the order texts are compared by
CharCode(c) ==
    IF c \in Digit THEN 48 + DigitVal(c)
    ELSE IF \E i \in 1..26 : UpperChars[i] = c
         THEN 64 + (CHOOSE i \in 1..26 : UpperChars[i] = c)
    ELSE IF \E i \in 1..26 : LowerChars[i] = c
         THEN 96 + (CHOOSE i \in 1..26 : LowerChars[i] = c)
    ELSE 32

\* a sorts before b
TextBefore(a, b) ==
    \E k \in 1..(Len(b)) :
        /\ \A i \in 1..(k - 1) : i <= Len(a) /\ a[i] = b[i]
        /\ (k > Len(a) \/ CharCode(a[k]) < CharCode(b[k]))

\* line 98, order=date.desc,employee_id.asc: x may stand before y
MayPrecede(x, y) ==
    \/ DateNumber(x.date) > DateNumber(y.date)
    \/ x.date = y.date /\ ~TextBefore(y.employee_id, x.employee_id)

\* A filter date=gt.startDate&date=lt.endDate, which leaves out both ends
StrictlyInRangeAt(table, startDate, endDate) ==
    {k \in 1..Len(table) :
        /\ DateNumber(table[k].date) > DateNumber(startDate)
        /\ DateNumber(table[k].date) < DateNumber(endDate)}

\* line 98, date=gte.startDate&date=lte.endDate: the places in the table of
\* the records of the range
InRangeAt(table, startDate, endDate) ==
    {k \in 1..Len(table) :
        /\ DateNumber(table[k].date) >= DateNumber(startDate)
        /\ DateNumber(table[k].date) <= DateNumber(endDate)}

\* lines 98-116: the answers the datastore may give to the query: the
\* records of the range in an order the order clause allows
QueryAnswers(table, startDate, endDate) ==
    LET at == InRangeAt(table, startDate, endDate)
        n  == Cardinality(at)
    IN  {[i \in 1..n |-> table[f[i]]] :
            f \in {g \in [1..n -> at] :
                      /\ \A i, j \in 1..n : i # j => g[i] # g[j]
                      /\ \A i, j \in 1..n :
                            i < j => MayPrecede(table[g[i]], table[g[j]])}}

\* The marker of line 157, without its check mark
FromSupabase == <<"F", "r", "o", "m", " ", "S", "u", "p", "a", "b", "a", "s", "e">>

\* record.field || ''
OrEmpty(v) == IF v = NULL THEN <<>> ELSE v

\* lines 148-158: the row of one record
ExportRow(record) ==
    <<record.date, record.employee_id, record.employee_name,
      OrEmpty(record.email_id), OrEmpty(record.first_in),
      OrEmpty(record.last_out), OrEmpty(record.late_login),
      OrEmpty(record.shift_name), FromSupabase>>

\* lines 148-158: rows
ExportRows(attendanceData) ==
    [k \in 1..Len(attendanceData) |-> ExportRow(attendanceData[k])]

\* values.update of range A<start>:I<start+n-1> with n rows of 9 cells
UpdateRows(s, start, values) ==
    LET n == IF Len(s) > start + Len(values) - 1
             THEN Len(s) ELSE start + Len(values) - 1
    IN  NormSheet([j \in 1..n |->
                      IF j >= start /\ j <= start + Len(values) - 1
                      THEN NormRow(values[j - start + 1])
                      ELSE IF j <= Len(s) THEN s[j] ELSE <<>>])

-----------------------------------------------------------------------------
(* The state *)

Runs == {1, 2}

\* The two inbound handlers: the incremental one and the full reimport
InboundKinds == {"inc", "full"}

\* Deno.env.get names both inbound handlers require
RequiredEnv == {"SHEET_ID", "google_client_email", "google_private_key",
                "SUPABASE_URL", "SUPABASE_ANON_KEY"}

\* What Deno.env holds when an invocation begins: everything, or all but one
EnvChoices == {RequiredEnv} \cup {RequiredEnv \ {v} : v \in RequiredEnv}

\* Cell texts the spreadsheet rows of the model are made of
dDec  == <<"1", " ", "D", "e", "c", " ", "2", "5">>
dIso  == <<"2", "0", "2", "5", "-", "1", "2", "-", "1", "6">>
dJunk == <<"j", "u", "n", "k">>

\* A full row of 8 cells, with an am/pm time, a 24-hour time and a negative one
RowA == <<dDec, <<"E", "1">>, <<"A">>, <<"m">>,
          <<"9", ":", "5", "1", " ", "p", "m">>, <<"1", "8", ":", "0", "0">>,
          <<"-", "0", ":", "2", "0">>, <<"D">> >>
\* A short row: the cells after the name are missing
RowB == <<dIso, <<" ", "E", "2">>, <<"B">> >>
\* A row whose name is white space only
RowNoName == <<dDec, <<"E", "3">>, <<" ">> >>
\* A row whose date is no date
RowBadDate == <<dJunk, <<"E", "5">>, <<"F">> >>

RowPool == {RowA, RowB, RowNoName, RowBadDate}

HeaderRow == <<<<"Date">>, <<"Employee Id">>, <<"Employee Name">>, <<"Email ID">>,
               <<"First In">>, <<"Last Out">>, <<"Late Login">>, <<"Shift Name">>,
               <<"Status">> >>

\* The sequences over S of length n
RECURSIVE SeqsOfLen(_, _)
SeqsOfLen(S, n) ==
    IF n = 0 THEN {<<>>}
    ELSE {Append(s, x) : s \in SeqsOfLen(S, n - 1), x \in S}

SeqsUpTo(S, n) == UNION {SeqsOfLen(S, k) : k \in 0..n}

NoResponse == [status |-> 0, success |-> FALSE, inserted |-> 0]
NoWrite    == [first |-> 0, last |-> 0, values |-> <<>>]

\* A request without a body: req.text() is ''
NoBody == [text |-> "empty", startDate |-> UNDEFINED, start_date |-> UNDEFINED,
           endDate |-> UNDEFINED, end_date |-> UNDEFINED]

\* An invocation slot that has not been used
Idle ==
    [pc                |-> "idle",
     kind              |-> "none",
     env               |-> {},
     now               |-> 0,
     rows              |-> <<>>,
     syncedRows        |-> {},
     newRecords        |-> <<>>,
     attendanceRecords |-> <<>>,
     rowStatus         |-> <<>>,
     i                 |-> 0,
     insertedCount     |-> 0,
     failedRows        |-> <<>>,
     posts             |-> <<>>,
     wrote             |-> NoWrite,
     calls             |-> <<>>,
     read              |-> "none",
     body              |-> NoBody,
     startDate         |-> <<>>,
     endDate           |-> <<>>,
     attendanceData    |-> <<>>,
     existingRows      |-> <<>>,
     response          |-> NoResponse]

\* The harness of the normalizer at rest
NormIdle == nIn = <<>> /\ nOut = <<>> /\ nOut2 = <<>> /\ npc = "off"

Init ==
    /\ sheet \in {<<HeaderRow>> \o s : s \in SeqsUpTo(RowPool, MaxRows)} \cup {<<>>}
    /\ db = <<>>
    /\ clock = 0
    /\ edits = 0
    /\ run = [r \in Runs |-> Idle]
    /\ NormIdle

Finished(r) == run[r].pc \in {"idle", "done"}

\* The slot's record with the handler returned
Return(rec, status, success, inserted) ==
    [rec EXCEPT !.pc = "done",
                !.response = [status |-> status, success |-> success,
                              inserted |-> inserted]]

\* The slot's record with one more request sent to the spreadsheet or to the
\* datastore: calls is the list of the requests of the invocation, in order
Call(rec, name) == [rec EXCEPT !.calls = Append(@, name)]

\* The catch of the handler: success false, status 500
Throw(rec) == Return(rec, 500, FALSE, 0)

normVars == <<nIn, nOut, nOut2, npc>>

-----------------------------------------------------------------------------
(* An invocation begins: lines 96-109 of either inbound handler *)

Invoke(r, kinds, envs, serial) ==
    /\ Finished(r)
    /\ \A q \in Runs : Finished(q) =>
           run[r].now < run[q].now \/ (run[r].now = run[q].now /\ r <= q)
    /\ serial => \A q \in Runs : Finished(q)
    /\ clock < MaxClock
    /\ clock' = clock + 1
    /\ \E k \in kinds, env \in envs :
          LET rec == [Idle EXCEPT !.kind = k, !.env = env, !.now = clock + 1]
          IN  run' = [run EXCEPT ![r] =
                         IF RequiredEnv \subseteq env
                         THEN [rec EXCEPT !.pc = "readSheet"]
                         ELSE Throw(rec)]
    /\ UNCHANGED <<sheet, db, edits, normVars>>

-----------------------------------------------------------------------------
(* The incremental inbound handler, src/unnamed/part_000 *)

\* lines 122-141: values.get, then the early return for a sheet without data rows
IncReadSheet(r) ==
    /\ run[r].pc = "readSheet" /\ run[r].kind = "inc"
    /\ \E outcome \in {"ok", "throws"} :
          run' = [run EXCEPT ![r] =
                     IF outcome = "throws" THEN Throw(Call(@, "sheets.get"))
                     ELSE IF Len(sheet) <= 1
                          THEN Return([Call(@, "sheets.get") EXCEPT !.rows = sheet], 200, TRUE, 0)
                          ELSE [Call(@, "sheets.get") EXCEPT !.rows = sheet, !.pc = "readExisting"]]
    /\ UNCHANGED <<sheet, db, clock, edits, normVars>>

\* lines 174-241 once existingRecords is known
Process(rec, existingRecords) ==
    LET dataRows == DataRowsOf(rec.rows)
        syncedRows == SyncedRowsOf(existingRecords)
    IN  [rec EXCEPT !.syncedRows = syncedRows,
                    !.newRecords = BuildNewRecords(dataRows, syncedRows, rec.now,
                                                   Len(dataRows)),
                    !.rowStatus = BuildRowStatus(dataRows, syncedRows),
                    !.pc = "writeStatus"]

\* A handler without the check of lines 153-156: the body of the answer is
\* parsed whatever the status, and the body of an error holds no row number
ExistingAnsweredUnchecked(rec, outcome, existingRecords) ==
    Process([rec EXCEPT !.read = outcome],
            IF outcome = "ok" THEN existingRecords ELSE <<>>)

\* lines 153-241: what follows the answer to the read of the persisted row
\* numbers.  read keeps the kind of the answer: "ok" (2xx, a list), "garbled"
\* (2xx, a body that does not parse or is no list) or "notok" (non-2xx)
ExistingAnswered(rec, outcome, existingRecords) ==
    IF outcome = "notok" THEN Throw([rec EXCEPT !.read = outcome])
    ELSE Process([rec EXCEPT !.read = outcome], existingRecords)

\* lines 146-241: the read of the persisted row numbers, answered with the
\* table's rows or with a non-2xx status, then the row loop
IncReadExisting(r) ==
    /\ run[r].pc = "readExisting"
    /\ \E outcome \in {"ok", "notok"} :
          run' = [run EXCEPT ![r] =
                     ExistingAnswered(Call(@, "db.select"), outcome, db)]
    /\ UNCHANGED <<sheet, db, clock, edits, normVars>>

\* lines 159-172: a 2xx answer whose body JSON.parse rejects, or that is no
\* list and holds no sheet_row_number: existingRecords is taken as empty
IncReadExistingGarbled(r) ==
    /\ run[r].pc = "readExisting"
    /\ run' = [run EXCEPT ![r] =
                  ExistingAnswered(Call(@, "db.select"), "garbled", <<>>)]
    /\ UNCHANGED <<sheet, db, clock, edits, normVars>>

\* lines 243-269: the status write-back, then the early return without records
IncWriteStatus(r) ==
    /\ run[r].pc = "writeStatus"
    /\ \E outcome \in {"ok", "throws"} :
          IF outcome = "throws"
          THEN /\ run' = [run EXCEPT ![r] = Throw(Call(@, "sheets.update"))]
               /\ UNCHANGED sheet
          ELSE LET w == [Call(run[r], "sheets.update") EXCEPT !.wrote =
                            [first |-> 2, last |-> Len(run[r].rowStatus) + 1,
                             values |-> run[r].rowStatus]]
               IN  /\ sheet' = UpdateColumnI(sheet, run[r].rowStatus)
                   /\ run' = [run EXCEPT ![r] =
                                 IF Len(w.newRecords) = 0
                                 THEN Return(w, 200, TRUE, 0)
                                 ELSE [w EXCEPT !.pc = "insert", !.i = 0]]
    /\ UNCHANGED <<db, clock, edits, normVars>>

\* A counter that takes every batch for inserted, whatever the answer
InsertedAny(count, batch, outcome) == count + Len(batch)

\* lines 291-297: insertedCount after the answer to a batch
Inserted(count, batch, outcome) ==
    IF outcome = "ok" THEN count + Len(batch) ELSE count

\* The slot's record after one turn of the batch loop, lines 276-300 of
\* part_000 and lines 160-189 of sync-from-google-sheets
AfterBatch(rec, records, batch, outcome, after) ==
    IF outcome = "throws" THEN Throw(rec)
    ELSE LET a == [rec EXCEPT
                      !.posts = Append(@, [batch |-> batch, ok |-> outcome = "ok"]),
                      !.insertedCount = Inserted(@, batch, outcome),
                      !.failedRows = IF outcome = "notok" /\ rec.kind = "full"
                                     THEN @ \o FailedRowsOf(records, rec.i)
                                     ELSE @,
                      !.i = @ + batchSize]
         IN  IF a.i < Len(records) THEN a
             ELSE IF after = "done" THEN Return(a, 200, TRUE, a.insertedCount)
             ELSE [a EXCEPT !.pc = after]

\* lines 271-321: one batch POST, which the datastore accepts only if the
\* table can take the batch, and the response after the last one
IncInsertBatch(r) ==
    /\ run[r].pc = "insert"
    /\ \E outcome \in {"ok", "notok", "throws"} :
          LET batch == BatchAt(run[r].newRecords, run[r].i)
          IN  /\ outcome = "ok" => Storable(batch)
              /\ db' = IF outcome = "ok" THEN DbInsert(db, batch, clock) ELSE db
              /\ run' = [run EXCEPT ![r] =
                            AfterBatch(Call(@, "db.insert"), @.newRecords, batch, outcome, "done")]
    /\ UNCHANGED <<sheet, clock, edits, normVars>>

-----------------------------------------------------------------------------
(* The full-reimport inbound handler, src/functions/sync-from-google-sheets *)

\* A handler that clears the table as soon as the spreadsheet has a row,
\* before it looks at the records
FullDecideClearFirst(rec, rows, recs) ==
    IF Len(rows) = 0
    THEN Return([rec EXCEPT !.rows = rows], 200, TRUE, 0)
    ELSE [rec EXCEPT !.rows = rows, !.attendanceRecords = recs, !.pc = "delete"]

\* lines 49-137 once rows and the filtered records are known: the two
\* early returns
FullDecide(rec, rows, recs) ==
    IF Len(rows) = 0
    THEN Return([rec EXCEPT !.rows = rows], 200, TRUE, 0)
    ELSE IF Len(recs) = 0
         THEN Return([rec EXCEPT !.rows = rows, !.attendanceRecords = recs],
                     200, TRUE, 0)
         ELSE [rec EXCEPT !.rows = rows, !.attendanceRecords = recs,
                          !.pc = "delete"]

\* lines 46-137 once rows is known: map, filter and the early returns
FullProcess(rec, rows) ==
    FullDecide(rec, rows,
               BuildAttendanceRecords(DataRowsOf(rows), Len(DataRowsOf(rows))))

\* lines 41-137: values.get, then the above
FullReadSheet(r) ==
    /\ run[r].pc = "readSheet" /\ run[r].kind = "full"
    /\ \E outcome \in {"ok", "throws"} :
          run' = [run EXCEPT ![r] =
                     IF outcome = "throws" THEN Throw(Call(@, "sheets.get")) ELSE FullProcess(Call(@, "sheets.get"), sheet)]
    /\ UNCHANGED <<sheet, db, clock, edits, normVars>>

\* lines 139-152: DELETE of the whole table; the answer is not looked at and
\* a thrown fetch is caught
FullDelete(r) ==
    /\ run[r].pc = "delete"
    /\ \E outcome \in {"ok", "notok", "throws"} :
          db' = IF outcome = "ok" THEN <<>> ELSE db
    /\ run' = [run EXCEPT ![r] = [Call(@, "db.delete") EXCEPT !.pc = "finsert", !.i = 0]]
    /\ UNCHANGED <<sheet, clock, edits, normVars>>

\* lines 154-189: one batch POST
FullInsertBatch(r) ==
    /\ run[r].pc = "finsert"
    /\ \E outcome \in {"ok", "notok", "throws"} :
          LET batch == BatchAt(run[r].attendanceRecords, run[r].i)
          IN  /\ outcome = "ok" => Storable(batch)
              /\ db' = IF outcome = "ok" THEN DbInsert(db, batch, clock) ELSE db
              /\ run' = [run EXCEPT ![r] =
                            AfterBatch(Call(@, "db.insert"), @.attendanceRecords, batch, outcome,
                                       "fstatus")]
    /\ UNCHANGED <<sheet, clock, edits, normVars>>

\* lines 191-220: the status write-back
FullWriteStatus(r) ==
    /\ run[r].pc = "fstatus"
    /\ \E outcome \in {"ok", "throws"} :
          LET statusUpdates ==
                  StatusUpdates(DataRowsOf(run[r].rows),
                                run[r].failedRows, run[r].insertedCount)
          IN  IF outcome = "throws"
              THEN /\ run' = [run EXCEPT ![r] = Throw(Call(@, "sheets.update"))]
                   /\ UNCHANGED sheet
              ELSE /\ sheet' = UpdateColumnI(sheet, statusUpdates)
                   /\ run' = [run EXCEPT ![r] =
                                 [Call(@, "sheets.update") EXCEPT !.pc = "verify",
                                           !.wrote = [first |-> 2,
                                                      last |-> Len(statusUpdates) + 1,
                                                      values |-> statusUpdates]]]
    /\ UNCHANGED <<db, clock, edits, normVars>>

\* lines 222-261: the count query and the response
FullVerify(r) ==
    /\ run[r].pc = "verify"
    /\ \E outcome \in {"ok", "throws"} :
          run' = [run EXCEPT ![r] =
                     IF outcome = "throws" THEN Throw(Call(@, "db.count"))
                     ELSE Return(Call(@, "db.count"), IF @.insertedCount > 0 THEN 200 ELSE 500,
                                 @.insertedCount > 0, @.insertedCount)]
    /\ UNCHANGED <<sheet, db, clock, edits, normVars>>

-----------------------------------------------------------------------------
(* The outbound exporter, src/functions/sync-to-google-sheets/index.ts *)

\* lines 41-95: an invocation begins, its date range is resolved and the
\* datastore's configuration is looked up
ExpInvoke(r, bodies, envs, serial) ==
    /\ Finished(r)
    /\ \A q \in Runs : Finished(q) =>
           run[r].now < run[q].now \/ (run[r].now = run[q].now /\ r <= q)
    /\ serial => \A q \in Runs : Finished(q)
    /\ clock < MaxClock
    /\ clock' = clock + 1
    /\ \E body \in bodies, env \in envs :
          LET rec == [Idle EXCEPT !.kind = "exp", !.env = env, !.now = clock + 1,
                                  !.body = body,
                                  !.startDate = ResolveRange(body).startDate,
                                  !.endDate = ResolveRange(body).endDate]
          IN  run' = [run EXCEPT ![r] =
                         IF {"SUPABASE_URL", "SUPABASE_ANON_KEY"} \subseteq env
                         THEN [rec EXCEPT !.pc = "query"]
                         ELSE Throw(rec)]
    /\ UNCHANGED <<sheet, db, edits, normVars>>

\* lines 116-158 once the datastore has answered: the spreadsheet's
\* configuration is looked up, then rows is built
ExpPrepare(rec, answer) ==
    IF "SHEET_ID" \notin rec.env \/ "google_private_key" \notin rec.env
    THEN Throw([rec EXCEPT !.attendanceData = answer])
    ELSE [rec EXCEPT !.attendanceData = answer,
                     !.rows = ExportRows(answer),
                     !.pc = "expGet"]

\* lines 98-158: the query, which the datastore answers with the records of
\* the range when both ends are dates; a non-2xx answer or a failed fetch throws
ExpQuery(r) ==
    /\ run[r].pc = "query"
    /\ \/ /\ ValidCalendarDate(run[r].startDate)
          /\ ValidCalendarDate(run[r].endDate)
          /\ \E answer \in QueryAnswers(db, run[r].startDate, run[r].endDate) :
                run' = [run EXCEPT ![r] =
                           ExpPrepare([Call(@, "db.select") EXCEPT !.read = "ok"],
                                      answer)]
       \/ run' = [run EXCEPT ![r] =
                     Throw([Call(@, "db.select") EXCEPT !.read = "notok"])]
    /\ UNCHANGED <<sheet, db, clock, edits, normVars>>

\* lines 196-256 after the status column: append the rows, or respond
ExpAfterStatus(rec) ==
    IF Len(rec.rows) > 0 THEN [rec EXCEPT !.pc = "expAppend"]
    ELSE Return(rec, 200, TRUE, 0)

\* lines 172-232 once existingRows is known: which write comes first
ExpBranch(rec, existing) ==
    IF Len(existing) = 0
    THEN [rec EXCEPT !.existingRows = existing, !.pc = "expHeader"]
    ELSE IF Len(existing) > 1
         THEN [rec EXCEPT !.existingRows = existing, !.pc = "expStatus"]
         ELSE ExpAfterStatus([rec EXCEPT !.existingRows = existing])

\* lines 167-172: values.get of A:I, which needs the client email to
\* authenticate
ExpReadSheet(r) ==
    /\ run[r].pc = "expGet"
    /\ \/ /\ "google_client_email" \in run[r].env
          /\ run' = [run EXCEPT ![r] = ExpBranch(Call(@, "sheets.get"), sheet)]
       \/ run' = [run EXCEPT ![r] = Throw(Call(@, "sheets.get"))]
    /\ UNCHANGED <<sheet, db, clock, edits, normVars>>

\* lines 180-185: the headers are written into A1:I1 of an empty sheet
ExpWriteHeader(r) ==
    /\ run[r].pc = "expHeader"
    /\ \/ /\ sheet' = UpdateRows(sheet, 1, <<HeaderRow>>)
          /\ run' = [run EXCEPT ![r] =
                        IF Len(@.rows) > 0
                        THEN [Call(@, "sheets.update") EXCEPT !.pc = "expData"]
                        ELSE Return(Call(@, "sheets.update"), 200, TRUE, 0)]
       \/ /\ run' = [run EXCEPT ![r] = Throw(Call(@, "sheets.update"))]
          /\ UNCHANGED sheet
    /\ UNCHANGED <<db, clock, edits, normVars>>

\* The slot's record after the write of rows from row first on, and the
\* response of lines 242-256
ExpWrote(rec, first) ==
    Return([Call(rec, "sheets.update") EXCEPT !.wrote =
               [first |-> first, last |-> first + Len(rec.rows) - 1,
                values |-> rec.rows]],
           200, TRUE, Len(rec.rows))

\* lines 188-195: the rows are written below the headers
ExpWriteData(r) ==
    /\ run[r].pc = "expData"
    /\ \/ /\ sheet' = UpdateRows(sheet, 2, run[r].rows)
          /\ run' = [run EXCEPT ![r] = ExpWrote(@, 2)]
       \/ /\ run' = [run EXCEPT ![r] = Throw(Call(@, "sheets.update"))]
          /\ UNCHANGED sheet
    /\ UNCHANGED <<db, clock, edits, normVars>>

\* An export that leaves the status column of the rows read as it is
statusUpdatesNone(existingRows) == <<>>

\* lines 202-207: one marker for each row read below the first
statusUpdates(existingRows) ==
    [k \in 1..(Len(existingRows) - 1) |-> <<FromSupabase>>]

\* lines 209-216: the markers are written into column I
ExpWriteStatus(r) ==
    /\ run[r].pc = "expStatus"
    /\ \/ /\ sheet' = UpdateColumnI(sheet, statusUpdates(run[r].existingRows))
          /\ run' = [run EXCEPT ![r] = ExpAfterStatus(Call(@, "sheets.update"))]
       \/ /\ run' = [run EXCEPT ![r] = Throw(Call(@, "sheets.update"))]
          /\ UNCHANGED sheet
    /\ UNCHANGED <<db, clock, edits, normVars>>

\* lines 223-232: the rows are written below the rows read
ExpAppend(r) ==
    /\ run[r].pc = "expAppend"
    /\ \/ /\ sheet' = UpdateRows(sheet, Len(run[r].existingRows) + 1, run[r].rows)
          /\ run' = [run EXCEPT ![r] = ExpWrote(@, Len(@.existingRows) + 1)]
       \/ /\ run' = [run EXCEPT ![r] = Throw(Call(@, "sheets.update"))]
          /\ UNCHANGED sheet
    /\ UNCHANGED <<db, clock, edits, normVars>>

-----------------------------------------------------------------------------
(* The environment *)

\* The process running an invocation dies between two awaits: no response
Crash(r) ==
    /\ ~Finished(r)
    /\ run' = [run EXCEPT ![r] = [@ EXCEPT !.pc = "done"]]
    /\ UNCHANGED <<sheet, db, clock, edits, normVars>>

\* Between two invocations a user of the spreadsheet rewrites columns A-H of
\* a data row, adds a row below the last one, or empties column I
UserEdit ==
    /\ \A q \in Runs : Finished(q)
    /\ edits < MaxEdits
    /\ edits' = edits + 1
    /\ \/ \E j \in 2..Len(sheet), row \in RowPool :
             /\ sheet' = [sheet EXCEPT ![j] =
                             IF Len(sheet[j]) = 9 THEN SetCell(row, 9, sheet[j][9])
                             ELSE row]
             /\ sheet' # sheet
       \/ \E row \in RowPool :
             /\ Len(sheet) >= 1
             /\ Len(sheet) - 1 < MaxRows
             /\ sheet' = Append(sheet, row)
       \/ /\ sheet' = NormSheet([j \in 1..Len(sheet) |->
                                    IF j >= 2 THEN SetCell(sheet[j], 9, <<>>)
                                    ELSE sheet[j]])
          /\ sheet' # sheet
    /\ UNCHANGED <<db, clock, run, normVars>>

-----------------------------------------------------------------------------
(* Specifications *)

\* Both inbound handlers in a configured deployment, started one after the
\* other on a spreadsheet no user touches meanwhile, any datastore answer
Next ==
    \/ \E r \in Runs : Invoke(r, InboundKinds, {RequiredEnv}, TRUE)
    \/ \E r \in Runs : IncReadSheet(r)
    \/ \E r \in Runs : IncReadExisting(r)
    \/ \E r \in Runs : IncReadExistingGarbled(r)
    \/ \E r \in Runs : IncWriteStatus(r)
    \/ \E r \in Runs : IncInsertBatch(r)
    \/ \E r \in Runs : FullReadSheet(r)
    \/ \E r \in Runs : FullDelete(r)
    \/ \E r \in Runs : FullInsertBatch(r)
    \/ \E r \in Runs : FullWriteStatus(r)
    \/ \E r \in Runs : FullVerify(r)
    \/ \E r \in Runs : Crash(r)

Spec == Init /\ [][Next]_vars

\* The incremental handler alone in a configured deployment, invocations that
\* may overlap, a datastore that answers the read of the row numbers with its
\* rows or with an error
NextOverlap ==
    \/ \E r \in Runs : Invoke(r, {"inc"}, {RequiredEnv}, FALSE)
    \/ \E r \in Runs : IncReadSheet(r)
    \/ \E r \in Runs : IncReadExisting(r)
    \/ \E r \in Runs : IncWriteStatus(r)
    \/ \E r \in Runs : IncInsertBatch(r)
    \/ \E r \in Runs : Crash(r)
    \/ UserEdit

SpecOverlap == Init /\ [][NextOverlap]_vars

\* As SpecOverlap, with the scheduler starting an invocation only when none runs
NextSerial ==
    \/ \E r \in Runs : Invoke(r, {"inc"}, {RequiredEnv}, TRUE)
    \/ \E r \in Runs : IncReadSheet(r)
    \/ \E r \in Runs : IncReadExisting(r)
    \/ \E r \in Runs : IncWriteStatus(r)
    \/ \E r \in Runs : IncInsertBatch(r)
    \/ \E r \in Runs : Crash(r)
    \/ UserEdit

SpecSerial == Init /\ [][NextSerial]_vars

\* Records the table may hold when an export begins: two of the same day, an
\* earlier one of the month, one of the month before; the first has every
\* optional field, the others none
ExpRecord(date, id, full) ==
    [date             |-> date,
     employee_id      |-> id,
     employee_name    |-> <<"A">>,
     email_id         |-> IF full THEN <<"m">> ELSE NULL,
     first_in         |-> IF full THEN <<"0", "9", ":", "0", "0", ":", "0", "0">> ELSE NULL,
     last_out         |-> IF full THEN <<"1", "8", ":", "0", "0", ":", "0", "0">> ELSE NULL,
     late_login       |-> NULL,
     shift_name       |-> IF full THEN <<"D">> ELSE <<>>,
     sheet_row_number |-> 0,
     sheet_synced_at  |-> 0]

RecordPool ==
    {ExpRecord(<<"2", "0", "2", "5", "-", "0", "1", "-", "1", "5">>, <<"E", "2">>, TRUE),
     ExpRecord(<<"2", "0", "2", "5", "-", "0", "1", "-", "1", "5">>, <<"E", "1">>, FALSE),
     ExpRecord(<<"2", "0", "2", "5", "-", "0", "1", "-", "0", "5">>, <<"E", "3">>, FALSE),
     ExpRecord(<<"2", "0", "2", "4", "-", "1", "2", "-", "3", "1">>, <<"E", "1">>, FALSE)}

\* The tables of at most MaxDb different records of the pool, in any order
TablePool ==
    {s \in SeqsUpTo(RecordPool, MaxDb) :
        \A i, j \in 1..Len(s) : i # j => s[i] # s[j]}

\* A request body that is a JSON object with these fields
ObjectBody(startDate, start_date, endDate, end_date) ==
    [text |-> "object", startDate |-> startDate, start_date |-> start_date,
     endDate |-> endDate, end_date |-> end_date]

\* The request bodies of the exports of the model: none, and a range from
\* the 5th to the 15th of the month
ExportBodies ==
    {NoBody,
     ObjectBody(<<"2", "0", "2", "5", "-", "0", "1", "-", "0", "5">>, UNDEFINED,
                UNDEFINED, <<"2", "0", "2", "5", "-", "0", "1", "-", "1", "5">>)}

\* What Deno.env holds when an export begins: everything, or all but the
\* datastore's URL, the spreadsheet's identifier or the client email
ExportEnvs ==
    {RequiredEnv} \cup
    {RequiredEnv \ {v} : v \in {"SUPABASE_URL", "SHEET_ID", "google_client_email"}}

ExportInit ==
    /\ sheet \in {<<>>, <<HeaderRow>>, <<HeaderRow, RowA>>}
    /\ db \in TablePool
    /\ clock = 0
    /\ edits = 0
    /\ run = [r \in Runs |-> Idle]
    /\ NormIdle

\* The exporter alone, started one export after the other, in a deployment
\* that is configured or lacks one of its settings
ExportNext ==
    \/ \E r \in Runs : ExpInvoke(r, ExportBodies, ExportEnvs, TRUE)
    \/ \E r \in Runs : ExpQuery(r)
    \/ \E r \in Runs : ExpReadSheet(r)
    \/ \E r \in Runs : ExpWriteHeader(r)
    \/ \E r \in Runs : ExpWriteData(r)
    \/ \E r \in Runs : ExpWriteStatus(r)
    \/ \E r \in Runs : ExpAppend(r)

SpecExport == ExportInit /\ [][ExportNext]_vars

\* The spreadsheets of the batch loop: the header and n data rows, every
\* seventh of them without a name, the others valid
BatchSheet(n) ==
    <<HeaderRow>> \o [i \in 1..n |-> IF i % 7 = 3 THEN RowNoName
                                     ELSE IF i % 2 = 0 THEN RowB ELSE RowA]

BatchInit ==
    /\ sheet \in {BatchSheet(n) : n \in 0..MaxBatchRows}
    /\ db = <<>>
    /\ clock = 0
    /\ edits = 0
    /\ run = [r \in Runs |-> Idle]
    /\ NormIdle

\* The first invocation of a deployment
InvokeOnce(r, kinds, envs) ==
    /\ \A q \in Runs : run[q].kind = "none"
    /\ Invoke(r, kinds, envs, TRUE)

\* One invocation of either inbound handler on a spreadsheet of up to
\* MaxBatchRows data rows, the datastore answering its reads truthfully and
\* each batch as it likes
NextBatch ==
    \/ \E r \in Runs : InvokeOnce(r, InboundKinds, {RequiredEnv})
    \/ \E r \in Runs : IncReadSheet(r)
    \/ \E r \in Runs : IncReadExisting(r)
    \/ \E r \in Runs : IncWriteStatus(r)
    \/ \E r \in Runs : IncInsertBatch(r)
    \/ \E r \in Runs : FullReadSheet(r)
    \/ \E r \in Runs : FullDelete(r)
    \/ \E r \in Runs : FullInsertBatch(r)
    \/ \E r \in Runs : FullWriteStatus(r)
    \/ \E r \in Runs : FullVerify(r)

SpecBatch == BatchInit /\ [][NextBatch]_vars

\* The request bodies of the exports that alternate with the incremental
\* handler: none, and a range from the 15th of the month to the end of the
\* year, which holds the dates of the spreadsheet rows of the model
SyncBodies ==
    {NoBody,
     ObjectBody(<<"2", "0", "2", "5", "-", "0", "1", "-", "1", "5">>, UNDEFINED,
                <<"2", "0", "2", "5", "-", "1", "2", "-", "3", "1">>, UNDEFINED)}

\* The spreadsheet is empty, or holds the headers and up to MaxRows rows a
\* user typed; the table is empty or holds one record that came from
\* elsewhere
SyncInit ==
    /\ sheet \in {<<HeaderRow>> \o s : s \in SeqsUpTo(RowPool, MaxRows)} \cup {<<>>}
    /\ db \in {s \in TablePool : Len(s) <= 1}
    /\ clock = 0
    /\ edits = 0
    /\ run = [r \in Runs |-> Idle]
    /\ NormIdle

\* The incremental handler and the exporter in a configured deployment,
\* started one after the other in any order on a spreadsheet no user touches
\* meanwhile
NextSync ==
    \/ \E r \in Runs : Invoke(r, {"inc"}, {RequiredEnv}, TRUE)
    \/ \E r \in Runs : IncReadSheet(r)
    \/ \E r \in Runs : IncReadExisting(r)
    \/ \E r \in Runs : IncWriteStatus(r)
    \/ \E r \in Runs : IncInsertBatch(r)
    \/ \E r \in Runs : ExpInvoke(r, SyncBodies, {RequiredEnv}, TRUE)
    \/ \E r \in Runs : ExpQuery(r)
    \/ \E r \in Runs : ExpReadSheet(r)
    \/ \E r \in Runs : ExpWriteHeader(r)
    \/ \E r \in Runs : ExpWriteData(r)
    \/ \E r \in Runs : ExpWriteStatus(r)
    \/ \E r \in Runs : ExpAppend(r)

SpecSync == SyncInit /\ [][NextSync]_vars

\* The full reimport alone in a configured deployment, started one run after
\* the other on a table that may hold a record already
NextReimport ==
    \/ \E r \in Runs : Invoke(r, {"full"}, {RequiredEnv}, TRUE)
    \/ \E r \in Runs : FullReadSheet(r)
    \/ \E r \in Runs : FullDelete(r)
    \/ \E r \in Runs : FullInsertBatch(r)
    \/ \E r \in Runs : FullWriteStatus(r)
    \/ \E r \in Runs : FullVerify(r)

SpecReimport == SyncInit /\ [][NextReimport]_vars

-----------------------------------------------------------------------------
(* The exporter's date resolution on its own *)

\* Values of a date field of the body: texts that are a date, one with white
\* space around, one that new Date reads, ones that are no date, and null
DateFieldValues ==
    {NULL, <<>>, <<"n", "o", "t", "-", "a", "-", "d", "a", "t", "e">>, <<"n", "u", "l", "l">>,
     <<"2", "0", "2", "5", "-", "0", "1", "-", "0", "5">>, <<" ", "2", "0", "2", "5", "-", "0", "1", "-", "0", "5", " ">>,
     <<"2", "0", "2", "5", "/", "0", "1", "/", "0", "5">>, <<"2", "0", "2", "5", "-", "1", "3", "-", "4", "5">>,
     <<"2", "0", "2", "5", "/", "1", "3", "/", "4", "5">>}

\* The request bodies: none, one that is no JSON, the JSON null, and the
\* objects with startDate, start_date, endDate, end_date present or not
RangeBodies ==
    {NoBody, [NoBody EXCEPT !.text = "malformed"], [NoBody EXCEPT !.text = "null"]}
    \cup {ObjectBody(s, s2, e, e2) :
            s  \in {UNDEFINED} \cup DateFieldValues,
            s2 \in {UNDEFINED, <<"2", "0", "2", "5", "-", "0", "1", "-", "1", "0">>},
            e  \in {UNDEFINED, <<"n", "o", "t", "-", "a", "-", "d", "a", "t", "e">>, <<"2", "0", "2", "5", "-", "0", "1", "-", "1", "5">>,
                    <<"2", "0", "2", "4", "-", "1", "2", "-", "0", "1">>},
            e2 \in {UNDEFINED, <<"2", "0", "2", "5", "-", "0", "1", "-", "3", "1">>}}

RangeInit ==
    /\ nIn \in RangeBodies
    /\ nOut = <<>>
    /\ nOut2 = <<>>
    /\ npc = "body"
    /\ sheet = <<>> /\ db = <<>> /\ clock = 0 /\ edits = 0
    /\ run = [r \in Runs |-> Idle]

\* lines 44-87 applied to the body
Resolve ==
    /\ npc = "body"
    /\ nOut' = ResolveRange(nIn)
    /\ npc' = "resolved"
    /\ UNCHANGED <<nIn, nOut2, sheet, db, clock, edits, run>>

RangeNext == Resolve

SpecRange == RangeInit /\ [][RangeNext]_vars

-----------------------------------------------------------------------------
(* The normalizer on its own *)

\* Strings that hold, or nearly hold, the day-month-year pattern
DatePatternInputs ==
    {pre \o day \o s1 \o mon \o s2 \o yr \o post :
        pre  \in {<<>>, <<" ">>, <<"x">>, <<"3">>},
        day  \in {<<"1">>, <<"1", "6">>},
        s1   \in {<<" ">>, <<" ", " ">>, <<>>},
        mon  \in {<<"D", "e", "c">>, <<"d", "E", "C">>, <<"D", "e", "x">>,
                  <<"D", "e">>, <<"D", "e", "c", "x">>},
        s2   \in {<<" ">>, <<>>},
        yr   \in {<<"5">>, <<"2", "5">>, <<"2", "0", "2">>, <<"2", "0", "2", "5">>,
                  <<"2", "0", "2", "5", "5">>},
        post \in {<<>>, <<" ">>, <<"z">>}}

\* Strings that are, or nearly are, YYYY-MM-DD
IsoInputs ==
    {pre \o body \o post :
        pre  \in {<<>>, <<" ">>, <<"0">>},
        body \in {dIso,
                  <<"2", "0", "2", "5", "-", "1", "-", "1", "6">>,
                  <<"2", "0", "2", "5", "/", "1", "2", "/", "1", "6">>,
                  <<"2", "5", "-", "1", "2", "-", "1", "6">>},
        post \in {<<>>, <<" ">>, <<"x">>}}

\* Every string of at most MaxShort characters over a small alphabet
ShortInputs == SeqsUpTo({"1", " ", "a", "-"}, MaxShort)

DateInputs == DatePatternInputs \cup IsoInputs \cup ShortInputs

NormInit ==
    /\ sheet = <<>>
    /\ db = <<>>
    /\ clock = 0
    /\ edits = 0
    /\ run = [r \in Runs |-> Idle]
    /\ nIn \in DateInputs
    /\ nOut = <<>>
    /\ nOut2 = <<>>
    /\ npc = "in"

\* out = parseDate(in)
NormParseDate ==
    /\ npc = "in"
    /\ nOut' = parseDate(nIn)
    /\ npc' = "once"
    /\ UNCHANGED <<sheet, db, clock, edits, run, nIn, nOut2>>

\* out2 = parseDate(out)
NormParseDateAgain ==
    /\ npc = "once"
    /\ nOut2' = parseDate(nOut)
    /\ npc' = "twice"
    /\ UNCHANGED <<sheet, db, clock, edits, run, nIn, nOut>>

NormNext == NormParseDate \/ NormParseDateAgain

SpecNorm == NormInit /\ [][NormNext]_vars

-----------------------------------------------------------------------------
(* The time normalizer on its own *)

\* Strings that hold, or nearly hold, the am/pm pattern
AmPmInputs ==
    {pre \o h \o <<":">> \o mm \o sp \o ap \o post :
        pre  \in {<<>>, <<" ">>, <<"x">>},
        h    \in {toString(n) : n \in 0..13} \cup {<<"0", "9">>, <<"9", "9">>},
        mm   \in {<<"0", "0">>, <<"0", "5">>, <<"5", "1">>, <<"5", "9">>,
                  <<"6", "0">>, <<"5">>},
        sp   \in {<<>>, <<" ">>, <<" ", " ">>},
        ap   \in {<<"a", "m">>, <<"p", "m">>, <<"A", "M">>, <<"P", "m">>,
                  <<"x", "m">>},
        post \in {<<>>, <<" ">>, <<"z">>}}

\* Strings with one colon or two, and what may stand between them
ColonInputs ==
    {h \o <<":">> \o m \o s :
        h \in {<<>>, <<"0">>, <<"9">>, <<"2", "3">>, <<"2", "4">>, <<"2", "5">>,
               <<"-", "0">>, <<" ", "9">>, <<"1", "x">>, <<"+", "5">>,
               <<"0", "0", "9">>},
        m \in {<<>>, <<"5">>, <<"0", "5">>, <<"5", "9">>, <<"6", "0">>,
               <<" ", "5">>, <<"5", "x">>, <<"2", "0">>},
        s \in {<<>>, <<":">>, <<":", "0">>, <<":", "0", "0">>, <<":", "5", "9">>,
               <<":", "6", "0">>, <<":", "5", "x">>, <<":", "0", "0", ":", "7">>}}

\* The sentinels, and text that is no time
SentinelInputs ==
    {<<>>, <<" ">>, <<"-">>, <<" ", "-">>, <<"n", "u", "l", "l">>,
     <<"N", "U", "L", "L">>, <<"N", "u", "l", "l">>, <<" ", "n", "u", "l", "l">>,
     <<"9", "3", "0">>, <<"n", "o", "o", "n">>, <<"9", " ", "p", "m">>,
     <<"a", "m">>}

\* Every string of at most MaxShort characters over a small alphabet
ShortTimeInputs == SeqsUpTo({"1", ":", " ", "-", "m"}, MaxShort)

TimeInputs == AmPmInputs \cup ColonInputs \cup SentinelInputs \cup ShortTimeInputs

TimeInit ==
    /\ sheet = <<>>
    /\ db = <<>>
    /\ clock = 0
    /\ edits = 0
    /\ run = [r \in Runs |-> Idle]
    /\ nIn \in TimeInputs
    /\ nOut = <<>>
    /\ nOut2 = <<>>
    /\ npc = "in"

\* out = parseTime(in)
NormParseTime ==
    /\ npc = "in"
    /\ nOut' = parseTime(nIn)
    /\ npc' = "once"
    /\ UNCHANGED <<sheet, db, clock, edits, run, nIn, nOut2>>

TimeNext == NormParseTime

SpecTime == TimeInit /\ [][TimeNext]_vars

-----------------------------------------------------------------------------
(* Properties of the incremental inbound handler *)

\* The invocation in slot r is one of part_000 and is past its row loop
Processed(r) ==
    /\ run[r].kind = "inc"
    /\ \/ run[r].pc \in {"writeStatus", "insert"}
       \/ run[r].pc = "done" /\ run[r].rowStatus # <<>>

\* The sheet_row_number values of a list of records
RowNumbers(records) == {records[k].sheet_row_number : k \in 1..Len(records)}

\* The invocation in slot b is the one started next after the one in slot a
Follows(a, b) == a # b /\ run[a].now >= 1 /\ run[b].now = run[a].now + 1

\* The row numbers the invocation in slot r had accepted by the datastore
AcceptedRows(r) ==
    UNION {RowNumbers(run[r].posts[k].batch) :
              k \in {x \in 1..Len(run[r].posts) : run[r].posts[x].ok}}

\* P': what is persisted once the invocation in slot a, which read P, is over
PersistedAfter(a) == run[a].syncedRows \cup AcceptedRows(a)

\* The invocation in slot r returned 200 and the datastore accepted every batch
AllAccepted(r) ==
    /\ run[r].pc = "done"
    /\ run[r].response.status = 200
    /\ \A k \in 1..Len(run[r].posts) : run[r].posts[k].ok

\* The row has 9 cells at most and, with its missing cells read as empty, a
\* date, an employee id and an employee name that are not empty once
\* trimmed and normalized
ValidRow(row) ==
    /\ Len(row) <= 9
    /\ parseDate(Cell(row, 1)) # <<>>
    /\ Cell(row, 2) # <<>>
    /\ Cell(row, 3) # <<>>

\* C1 as stated: whenever a run on S and P returned 200 and the next run reads
\* the same S and the P' the first one left, the second run has no record to
\* insert.
C1_Original ==
    \A a, b \in Runs :
        ( /\ Follows(a, b)
          /\ run[a].pc = "done"
          /\ run[a].response.status = 200
          /\ Processed(b)
          /\ run[b].rows = run[a].rows
          /\ run[b].syncedRows = PersistedAfter(a) )
        => run[b].newRecords = <<>>

\* C1, amended: whenever a run on S and P returned 200 with every batch accepted
\* by the datastore and the next run reads the same S and the P' the first
\* one left, the second run has no record to insert.
C1_Idempotent ==
    \A a, b \in Runs :
        ( /\ Follows(a, b)
          /\ AllAccepted(a)
          /\ Processed(b)
          /\ run[b].rows = run[a].rows
          /\ run[b].syncedRows = PersistedAfter(a) )
        => run[b].newRecords = <<>>

\* A first run had a batch accepted, the second read the same rows and what
\* the first left in the table, and returned without a record to insert
C1_Witness ==
    \E a, b \in Runs :
        /\ Follows(a, b)
        /\ AllAccepted(a)
        /\ AcceptedRows(a) # {}
        /\ Processed(b)
        /\ run[b].rows = run[a].rows
        /\ run[b].syncedRows = PersistedAfter(a)
        /\ run[b].newRecords = <<>>
        /\ run[b].response = [status |-> 200, success |-> TRUE, inserted |-> 0]

C3_ExactlyTheNewValidRows ==
    \A r \in Runs :
        ( /\ Processed(r)
          /\ \A j \in 2..Len(run[r].rows) : Len(run[r].rows[j]) <= 9 )
        => /\ RowNumbers(run[r].newRecords) =
                  {j \in 2..Len(run[r].rows) :
                      j \notin run[r].syncedRows /\ ValidRow(run[r].rows[j])}
           /\ \A x, y \in 1..Len(run[r].newRecords) :
                  x # y => run[r].newRecords[x].sheet_row_number
                               # run[r].newRecords[y].sheet_row_number

\* The cell in column k of the row is missing, empty or white space only
BlankCell(row, k) == k > Len(row) \/ trim(row[k]) = <<>>

\* The sheet rows of the invocation in slot r that have an employee id and
\* an employee name
RowsWithIdAndName(r) ==
    {j \in 2..Len(run[r].rows) :
        ~BlankCell(run[r].rows[j], 2) /\ ~BlankCell(run[r].rows[j], 3)}

C5_CorrectedRowIsInserted ==
    \A a, b \in Runs : \A j \in 2..Len(run[b].rows) :
        ( /\ Follows(a, b)
          /\ Processed(a)
          /\ run[a].pc = "done"
          /\ run[a].wrote # NoWrite
          /\ Processed(b)
          /\ Len(run[a].rows) = Len(run[b].rows)
          /\ j \notin run[a].syncedRows
          /\ ~ValidRow(run[a].rows[j])
          /\ j \notin run[b].syncedRows
          /\ ValidRow(run[b].rows[j])
          /\ run[b].rows[j] =
                 SetCell(run[b].rows[j], 9, run[a].wrote.values[j - 1][1]) )
        => j \in RowNumbers(run[b].newRecords)

\* C6 as stated: when a run built a record for a row and wrote the status
\* cells, the row is not persisted after it (its batch was rejected, or the
\* run died), and the next run reads the sheet the first one left, the next
\* run builds a record for that row again.
C6_UnpersistedRowIsResubmitted ==
    \A a, b \in Runs : \A j \in RowNumbers(run[a].newRecords) :
        ( /\ Follows(a, b)
          /\ run[a].pc = "done"
          /\ run[a].wrote # NoWrite
          /\ Processed(b)
          /\ run[b].rows = UpdateColumnI(run[a].rows, run[a].wrote.values)
          /\ j \notin run[b].syncedRows )
        => j \in RowNumbers(run[b].newRecords)

\* The records of the table that carry row number j
StoredWithRow(j) == {x \in 1..Len(db) : db[x].sheet_row_number = j}

\* C7: the table has no unique constraint on sheet_row_number, so when two
\* runs each had a batch with the same row accepted, two records of the
\* table carry that row number.
C7_BothInsertsAreStored ==
    \A a, b \in Runs : \A j \in AcceptedRows(a) \cap AcceptedRows(b) :
        a # b => Cardinality(StoredWithRow(j)) >= 2

\* Two runs read the same persisted set, each had its insert of the same new
\* row accepted, and two records of the table carry that row's number
C7_Witness ==
    \E a, b \in Runs : \E j \in AcceptedRows(a) \cap AcceptedRows(b) :
        /\ a # b
        /\ run[a].pc = "done" /\ run[b].pc = "done"
        /\ run[a].response.success /\ run[b].response.success
        /\ run[a].syncedRows = run[b].syncedRows
        /\ j \notin run[a].syncedRows
        /\ Cardinality(StoredWithRow(j)) = 2

\* C8: the status write-back of a run on a sheet with n >= 1 data rows is to
\* the cells I2..I(n+1), one "Saved" marker per data row, whether the row was
\* skipped, dropped or inserted; and a run that returned 200 on such a sheet
\* made that write.
C8_StatusForEveryDataRow ==
    \A r \in Runs :
        /\ run[r].wrote # NoWrite =>
              /\ Len(run[r].rows) >= 2
              /\ run[r].wrote.first = 2
              /\ run[r].wrote.last = Len(run[r].rows)
              /\ run[r].wrote.values = [j \in 1..(Len(run[r].rows) - 1) |-> <<Saved>>]
        /\ ( /\ run[r].pc = "done"
             /\ run[r].response.status = 200
             /\ Len(run[r].rows) >= 2 )
           => run[r].wrote # NoWrite

\* A run wrote the markers of a sheet whose row 2 it skipped as persisted,
\* and the sheet holds the marker in I2
C8_Witness ==
    \E r \in Runs :
        /\ run[r].wrote # NoWrite
        /\ 2 \in run[r].syncedRows
        /\ run[r].newRecords = <<>>
        /\ Len(run[r].wrote.values) = Len(run[r].rows) - 1
        /\ Len(sheet) >= 2 /\ Len(sheet[2]) = 9 /\ sheet[2][9] = Saved

-----------------------------------------------------------------------------
(* Properties of the normalizer *)

\* C9: parseDate is idempotent: parseDate(parseDate(x)) = parseDate(x).
C9_ParseDateIdempotent == npc = "twice" => nOut2 = nOut

\* An input that parseDate rewrote has gone through parseDate twice, and
\* the second pass left the result of the first as it was
C9_Witness ==
    /\ npc = "twice"
    /\ nOut # nIn
    /\ nOut # <<>>
    /\ nOut2 = nOut

\* The whole of s is a day of 1 or 2 digits, a month abbreviation of 3
\* letters and a year of 2 or 4 digits, with white space between them
DayMonthYearForm(s) ==
    /\ DateMatchAt(s, 1).ok
    /\ MonthNumber(DateMatchAt(s, 1).month) # 0
    /\ Len(DateMatchAt(s, 1).year) \in {2, 4}
    /\ LET d  == Len(DateMatchAt(s, 1).day)
           w1 == RunLen(s, d + 1, WS, Len(s))
           w2 == RunLen(s, d + w1 + 4, WS, Len(s))
       IN  Len(s) = d + w1 + 3 + w2 + Len(DateMatchAt(s, 1).year)

\* YYYY-MM-DD of a string of that form
DayMonthYearText(s) ==
    (IF Len(DateMatchAt(s, 1).year) = 2 THEN <<"2", "0">> ELSE <<>>)
    \o DateMatchAt(s, 1).year \o <<"-">>
    \o padStart0(toString(MonthNumber(DateMatchAt(s, 1).month)), 2) \o <<"-">>
    \o padStart0(DateMatchAt(s, 1).day, 2)

\* What C10 says of input x, its four cases read on x without the white
\* space around it
StatedDate(x) ==
    IF x = <<>> THEN <<>>
    ELSE IF IsIsoDate(x) THEN x
    ELSE IF DayMonthYearForm(x) THEN DayMonthYearText(x)
    ELSE x

\* C10 as stated: parseDate gives the empty string for an input that is empty
\* or white space, the input for an input of the form YYYY-MM-DD, YYYY-MM-DD
\* for an input of the form day, month abbreviation, year of 2 or 4 digits,
\* and any other input unchanged.
C10_MapsAsStated == npc # "in" => nOut = StatedDate(trim(nIn))

\* The whole of s is an hour of 1 or 2 digits, a colon, a minute of 2
\* digits, white space or none, and am or pm in any case, with the hour in
\* 1..12 and the minute in 00..59
AmPmForm(s) ==
    /\ TimeMatchAt(s, 1).ok
    /\ LET d == Len(TimeMatchAt(s, 1).hour)
       IN  Len(s) = d + 3 + RunLen(s, d + 4, WS, Len(s)) + 2
    /\ DigitsValue(TimeMatchAt(s, 1).hour) \in 1..12
    /\ DigitsValue(TimeMatchAt(s, 1).minute) \in 0..59

\* The hour of the 24-hour clock of such a string: 12am is 0, 12pm is 12, pm
\* adds 12 to 1..11, am leaves 1..11
StatedHour(s) ==
    IF LowerChar(TimeMatchAt(s, 1).ampm[1]) = "p"
    THEN (IF DigitsValue(TimeMatchAt(s, 1).hour) = 12
          THEN 12 ELSE DigitsValue(TimeMatchAt(s, 1).hour) + 12)
    ELSE (IF DigitsValue(TimeMatchAt(s, 1).hour) = 12
          THEN 0 ELSE DigitsValue(TimeMatchAt(s, 1).hour))

\* C11: for an input of the form h:mm, white space or none, am or pm, with h in
\* 1..12 and mm in 00..59, parseTime gives HH:mm:00 with HH the hour of the
\* 24-hour clock in two digits; white space around the input does not matter.
C11_AmPmTo24Hour ==
    (npc = "once" /\ AmPmForm(trim(nIn)))
    => nOut = padStart0(toString(StatedHour(trim(nIn))), 2) \o <<":">>
              \o TimeMatchAt(trim(nIn), 1).minute \o <<":", "0", "0">>

\* parseTime turned a 12 o'clock am input into hour 00
C11_Witness ==
    /\ npc = "once"
    /\ AmPmForm(nIn)
    /\ DigitsValue(TimeMatchAt(nIn, 1).hour) = 12
    /\ LowerChar(TimeMatchAt(nIn, 1).ampm[1]) = "a"
    /\ SubSeq(nOut, 1, 3) = <<"0", "0", ":">>
    /\ Len(nOut) = 8

\* The text is a number written in decimal digits
IsNumber(s) == s # <<>> /\ \A i \in 1..Len(s) : s[i] \in Digit

\* The padded component is a number from lo to hi
NumberIn(s, lo, hi) == IsNumber(s) /\ DigitsValue(s) >= lo /\ DigitsValue(s) <= hi

\* What C12 says of a text with ":" in it: split on ":", a missing seconds
\* component is 00, each component padded to two digits, and the three joined
\* if they are an hour in 0..23, a minute in 0..59 and a second in 0..59
StatedColonTime(s) ==
    LET parts  == split(s)
        hour   == padStart0(parts[1], 2)
        minute == padStart0(parts[2], 2)
        second == IF Len(parts) >= 3 /\ parts[3] # <<>>
                  THEN padStart0(parts[3], 2)
                  ELSE <<"0", "0">>
    IN  IF NumberIn(hour, 0, 23) /\ NumberIn(minute, 0, 59) /\ NumberIn(second, 0, 59)
        THEN hour \o <<":">> \o minute \o <<":">> \o second
        ELSE NULL

\* What C12 says of input x
StatedTime(x) ==
    IF \/ trim(x) = <<>>
       \/ trim(x) = <<"-">>
       \/ [i \in 1..Len(trim(x)) |-> LowerChar(trim(x)[i])] = <<"n", "u", "l", "l">>
       \/ trim(x)[1] = "-"
    THEN NULL
    ELSE IF \E p \in 1..Len(trim(x)) : trim(x)[p] = ":"
         THEN StatedColonTime(trim(x))
         ELSE NULL

\* C12 as stated: parseTime gives null for an input that is empty, white space,
\* "-", "null" in any case or that begins with "-"; for an input with ":" it
\* gives the padded HH:MM:SS when hour, minute and second are in range and
\* null otherwise; and null for any other input.  Inputs in which the am/pm
\* pattern of C11 is found are left aside.
C12_MapsAsStated ==
    ( /\ npc = "once"
      /\ \A p \in 1..Len(trim(nIn)) : ~TimeMatchAt(trim(nIn), p).ok )
    => nOut = StatedTime(nIn)

\* HH:MM:SS with two digits each, hour in 0..23, minute and second in 0..59
CanonicalTime(s) ==
    /\ Len(s) = 8
    /\ s[3] = ":" /\ s[6] = ":"
    /\ NumberIn(SubSeq(s, 1, 2), 0, 23)
    /\ NumberIn(SubSeq(s, 4, 5), 0, 59)
    /\ NumberIn(SubSeq(s, 7, 8), 0, 59)

\* C13 as stated: for every input, what parseTime gives is null or a canonical
\* HH:MM:SS.
C13_TimeCanonicalOrNull ==
    npc = "once" => (nOut = NULL \/ CanonicalTime(nOut))

\* YYYY-MM-DD: four digits, two digits, two digits
CanonicalDate(s) ==
    /\ Len(s) = 10
    /\ s[5] = "-" /\ s[8] = "-"
    /\ IsNumber(SubSeq(s, 1, 4))
    /\ IsNumber(SubSeq(s, 6, 7))
    /\ IsNumber(SubSeq(s, 9, 10))

\* C14 as stated: every record either inbound handler builds for insert or
\* posts has a date of the form YYYY-MM-DD; a row whose date cell is no date
\* yields no record.
C14_DateCanonical ==
    \A r \in Runs :
        /\ \A k \in 1..Len(run[r].newRecords) :
              CanonicalDate(run[r].newRecords[k].date)
        /\ \A k \in 1..Len(run[r].attendanceRecords) :
              CanonicalDate(run[r].attendanceRecords[k].date)
        /\ \A k \in 1..Len(run[r].posts) : \A x \in 1..Len(run[r].posts[k].batch) :
              CanonicalDate(run[r].posts[k].batch[x].date)


\* The row the exporter is to write for a record: its nine fields, an
\* optional field that is null as the empty text
StatedRow(rec) ==
    <<rec.date, rec.employee_id, rec.employee_name,
      IF rec.email_id = NULL THEN <<>> ELSE rec.email_id,
      IF rec.first_in = NULL THEN <<>> ELSE rec.first_in,
      IF rec.last_out = NULL THEN <<>> ELSE rec.last_out,
      IF rec.late_login = NULL THEN <<>> ELSE rec.late_login,
      IF rec.shift_name = NULL THEN <<>> ELSE rec.shift_name,
      FromSupabase>>

\* The places in the table of the records dated from startDate to endDate,
\* both included
PersistedInRange(startDate, endDate) ==
    {k \in 1..Len(db) :
        /\ DateNumber(startDate) <= DateNumber(db[k].date)
        /\ DateNumber(db[k].date) <= DateNumber(endDate)}

\* The rows stand by date descending, then by employee id ascending
DateDescThenIdAsc(values) ==
    \A i, j \in 1..Len(values) :
        i < j =>
            \/ DateNumber(values[i][1]) > DateNumber(values[j][1])
            \/ /\ values[i][1] = values[j][1]
               /\ ~TextBefore(values[j][2], values[i][2])

\* C15: the rows a successful export has written to the spreadsheet are one
\* row for each persisted record dated within the resolved range, both ends
\* included, and no other row; they stand by date descending, then by employee id ascending;
\* each row is the record's date, employee id, employee name, email, first in,
\* last out, late login, shift name and the export marker, a null optional
\* field being the empty text
C15_RowsAreTheRangeInOrder ==
    \A r \in Runs :
        (run[r].kind = "exp" /\ run[r].response.status = 200) =>
            LET values == run[r].wrote.values
                at     == PersistedInRange(run[r].startDate, run[r].endDate)
            IN  /\ Len(values) = Cardinality(at)
                /\ \E f \in [1..Len(values) -> at] :
                      /\ \A i, j \in 1..Len(values) : i # j => f[i] # f[j]
                      /\ \A i \in 1..Len(values) : values[i] = StatedRow(db[f[i]])
                /\ DateDescThenIdAsc(values)
                /\ \A i \in 1..Len(values) :
                      sheet[run[r].wrote.first + i - 1] = NormRow(values[i])

\* An export of a table of three records, the first outside the range, the
\* second on its first day and the third on its last day with a null
\* optional field, has written the third and then the second
C15_Witness ==
    \E r \in Runs :
        /\ run[r].kind = "exp"
        /\ run[r].response.status = 200
        /\ Len(db) = 3
        /\ DateNumber(db[1].date) < DateNumber(run[r].startDate)
        /\ db[2].date = run[r].startDate
        /\ db[3].date = run[r].endDate
        /\ db[3].first_in = NULL
        /\ run[r].wrote.values = <<StatedRow(db[3]), StatedRow(db[2])>>


\* A field of the body is missing, or is a text that is no date in any form
\* new Date reads
MissingOrUnparseable(v) ==
    \/ v = UNDEFINED
    \/ /\ v # NULL
       /\ v # <<>>
       /\ ~IsIsoDate(trim(v))
       /\ ~(IsSlashDate(trim(v)) /\ ValidCalendarDate(trim(v)))

\* C16: a request body that is a JSON object whose startDate, or whose
\* endDate, is missing or is no parseable date resolves to the default range:
\* the first day of the current month to today
C16_DefaultRangeOnBadDate ==
    (/\ npc = "resolved"
     /\ nIn.text = "object"
     /\ nIn.start_date = UNDEFINED
     /\ nIn.end_date = UNDEFINED
     /\ MissingOrUnparseable(nIn.startDate) \/ MissingOrUnparseable(nIn.endDate))
        => nOut = [startDate |-> FirstDay, endDate |-> Today]


\* C17: an invocation of either operation that finds one of the five required
\* configuration values absent sends no request to the datastore or to the
\* spreadsheet, and responds with the top-level failure: success false,
\* status 500
C17_NoRequestWithoutConfiguration ==
    \A r \in Runs :
        (run[r].kind # "none" /\ ~(RequiredEnv \subseteq run[r].env)) =>
            /\ run[r].calls = <<>>
            /\ run[r].pc = "done" =>
                   run[r].response = [status |-> 500, success |-> FALSE, inserted |-> 0]


\* The places in the requests of an invocation of the requests called name
CallsAt(rec, name) == {k \in 1..Len(rec.calls) : rec.calls[k] = name}

\* C18: in an inbound run that has sent a batch insert, the status
\* write-back to the spreadsheet is sent at most once and after every batch
\* insert of the run, and a run that responds has sent it exactly once
C18_WriteBackOnceAfterInserts ==
    \A r \in Runs :
        (run[r].kind \in {"inc", "full"} /\ CallsAt(run[r], "db.insert") # {}) =>
            /\ Cardinality(CallsAt(run[r], "sheets.update")) <= 1
            /\ \A w \in CallsAt(run[r], "sheets.update"),
                  b \in CallsAt(run[r], "db.insert") : b < w
            /\ run[r].response.status = 200 =>
                   Cardinality(CallsAt(run[r], "sheets.update")) = 1


\* The number of batches k records are submitted in: k / 10, rounded up
BatchCount(k) == (k + batchSize - 1) \div batchSize

\* Every batch insert the run has requested has been answered
AllAnswered(rec) == Cardinality(CallsAt(rec, "db.insert")) = Len(rec.posts)

\* The number of records in the batches of the run the datastore accepted
AcceptedRecords(rec) ==
    Cardinality({x \in (1..Len(rec.posts)) \X (1..batchSize) :
                    /\ rec.posts[x[1]].ok
                    /\ x[2] <= Len(rec.posts[x[1]].batch)})

\* C19: an incremental run in which the datastore has rejected a batch goes
\* on: while batches remain it is still inserting, and once every batch has
\* been answered it has submitted all of them and has responded with success,
\* status 200 and an inserted count that is the number of records in the
\* batches the datastore accepted
C19_RejectedBatchDoesNotAbort ==
    \A r \in Runs :
        (/\ run[r].kind = "inc"
         /\ \E j \in 1..Len(run[r].posts) : ~run[r].posts[j].ok
         /\ AllAnswered(run[r])) =>
            IF Len(run[r].posts) < BatchCount(Len(run[r].newRecords))
            THEN run[r].pc = "insert"
            ELSE /\ run[r].pc = "done"
                 /\ Len(run[r].posts) = BatchCount(Len(run[r].newRecords))
                 /\ run[r].response = [status |-> 200, success |-> TRUE,
                                       inserted |-> AcceptedRecords(run[r])]

\* An incremental run of 21 new records whose first batch was rejected and
\* whose two later batches were accepted has responded with 11 inserted
C19_Witness ==
    \E r \in Runs :
        /\ run[r].kind = "inc"
        /\ Len(run[r].newRecords) = 21
        /\ Len(run[r].posts) = 3
        /\ ~run[r].posts[1].ok
        /\ run[r].posts[2].ok
        /\ run[r].posts[3].ok
        /\ run[r].response = [status |-> 200, success |-> TRUE, inserted |-> 11]


\* The records an inbound run submits: newRecords of the incremental
\* handler, attendanceRecords of the full reimport
Submitted(rec) ==
    IF rec.kind = "inc" THEN rec.newRecords ELSE rec.attendanceRecords

\* C20: the batches an inbound run has submitted are, in order, the
\* records 1..10, 11..20, ... of its new records in sheet order, each of at
\* most 10 records, so that no record is in two batches; a run that has
\* had every batch answered and has responded has submitted ceil(k/10)
\* batches and so every record; and no batch is requested while an earlier
\* request of the run is unanswered
C20_BatchesOfTenInOrder ==
    \A r \in Runs :
        (run[r].kind \in {"inc", "full"} /\ CallsAt(run[r], "db.insert") # {}) =>
            LET records == Submitted(run[r])
                k       == Len(records)
                posts   == run[r].posts
            IN  /\ Len(posts) <= BatchCount(k)
                /\ \A j \in 1..Len(posts) :
                      /\ Len(posts[j].batch) <= 10
                      /\ Len(posts[j].batch) =
                            (IF 10 * j <= k THEN 10 ELSE k - 10 * (j - 1))
                      /\ \A i \in 1..Len(posts[j].batch) :
                            posts[j].batch[i] = records[10 * (j - 1) + i]
                /\ run[r].kind = "inc" =>
                       \A i, j \in 1..k :
                           i < j => records[i].sheet_row_number
                                        < records[j].sheet_row_number
                /\ (AllAnswered(run[r]) /\ run[r].response # NoResponse) =>
                       Len(posts) = BatchCount(k)
                /\ Cardinality(CallsAt(run[r], "db.insert")) <= Len(posts) + 1
                /\ ~AllAnswered(run[r]) =>
                       /\ run[r].pc = "done"
                       /\ run[r].calls[Len(run[r].calls)] = "db.insert"

\* A run of 21 new records has submitted three batches, of 10, 10 and 1
\* records, the last one being the 21st record
C20_Witness ==
    \E r \in Runs :
        /\ run[r].kind = "inc"
        /\ Len(run[r].newRecords) = 21
        /\ Len(run[r].posts) = 3
        /\ Len(run[r].posts[1].batch) = 10
        /\ Len(run[r].posts[2].batch) = 10
        /\ run[r].posts[3].batch = <<run[r].newRecords[21]>>
        /\ run[r].newRecords[21].sheet_row_number = 26
        /\ run[r].response.status = 200


-----------------------------------------------------------------------------
(* Properties of the full-reimport inbound handler *)

\* Sheet row j of rows yields a record that passes the filter
KeptRow(rows, j) == FullKeeps(FullRecord(rows[j]))

\* The place among the submitted records of the record built from sheet row
\* j: the number of rows up to j that yield a record
RecordPlace(rows, j) == Cardinality({x \in 2..j : KeptRow(rows, x)})

\* The batch, counted from 1, the record at place k was submitted in
BatchOfPlace(k) == ((k - 1) \div batchSize) + 1

\* The record built from sheet row j was in a batch the datastore answered,
\* with ok or without
RowAnswered(rec, j, ok) ==
    /\ KeptRow(rec.rows, j)
    /\ BatchOfPlace(RecordPlace(rec.rows, j)) <= Len(rec.posts)
    /\ rec.posts[BatchOfPlace(RecordPlace(rec.rows, j))].ok = ok

\* C21 as stated: in a full-reimport run that has written the status column,
\* the marker written for a data row is the saved marker if and only if the
\* record built from that row was in a batch the datastore accepted, and the
\* failed marker if and only if it was in a rejected batch; and failedRows of
\* a run that has responded holds exactly the numbers of the rows whose
\* batch was rejected.
C21_StatusReflectsOwnOutcome ==
    \A r \in Runs :
        (run[r].kind = "full" /\ run[r].wrote # NoWrite) =>
            /\ \A j \in 2..Len(run[r].rows) :
                  /\ run[r].wrote.values[j - 1][1] = Saved
                         <=> RowAnswered(run[r], j, TRUE)
                  /\ run[r].wrote.values[j - 1][1] = Failed
                         <=> RowAnswered(run[r], j, FALSE)
            /\ run[r].response # NoResponse =>
                   {run[r].failedRows[x] : x \in 1..Len(run[r].failedRows)}
                       = {j \in 2..Len(run[r].rows) : RowAnswered(run[r], j, FALSE)}



\* C22 as stated: whatever the request body, absent, empty, malformed, with
\* fields missing or with any text in them, the date resolution ends
\* without raising and gives a start and an end that are both of the form
\* YYYY-MM-DD and both dates of the calendar.
C22_ResolvesToTwoValidDates ==
    npc = "resolved" =>
        /\ IsIsoDate(nOut.startDate) /\ ValidCalendarDate(nOut.startDate)
        /\ IsIsoDate(nOut.endDate) /\ ValidCalendarDate(nOut.endDate)


-----------------------------------------------------------------------------
(* Properties of the outbound exporter's writes *)

\* The cell in column k of a row as values.get gives it: a cell past the
\* end of the row is empty
RawCell(row, k) == IF k <= Len(row) THEN row[k] ELSE <<>>

\* The export in slot r is the last invocation started, has responded with
\* success, and nothing has touched the spreadsheet since
LastExportDone(r) ==
    /\ run[r].kind = "exp"
    /\ run[r].now = clock
    /\ run[r].pc = "done"
    /\ run[r].response.status = 200

\* C23: after a successful export that fetched the rows R: a spreadsheet that
\* was empty is the header row followed by R from row 2 on; a spreadsheet
\* that had m >= 1 rows has its rows 1..m with the cells of columns A-H as
\* they were, the export marker in column I of rows 2..m, row 1 as it was,
\* and R in rows m+1..m+|R|, whatever the spreadsheet held before.
C23_ExportPostcondition ==
    \A r \in Runs :
        LastExportDone(r) =>
            LET before == run[r].existingRows
                m      == Len(before)
                R      == run[r].rows
            IN  IF m = 0
                THEN sheet = <<HeaderRow>> \o R
                ELSE /\ Len(sheet) = m + Len(R)
                     /\ sheet[1] = before[1]
                     /\ \A j \in 1..m : \A k \in 1..8 :
                            RawCell(sheet[j], k) = RawCell(before[j], k)
                     /\ \A j \in 2..m : RawCell(sheet[j], 9) = FromSupabase
                     /\ \A i \in 1..Len(R) : sheet[m + i] = R[i]

\* Two exports, one after the other, have fetched the same two rows and
\* found a header and one data row of eight cells at first: the data row has
\* its eight cells and the marker, and the fetched rows stand below it twice
C23_Witness ==
    \E a, b \in Runs :
        /\ Follows(a, b)
        /\ LastExportDone(b)
        /\ run[a].kind = "exp" /\ run[a].response.status = 200
        /\ run[a].existingRows = <<HeaderRow, RowA>>
        /\ Len(run[a].rows) = 2
        /\ run[b].rows = run[a].rows
        /\ Len(run[b].existingRows) = 4
        /\ sheet = <<HeaderRow, RowA \o <<FromSupabase>> >>
                       \o run[a].rows \o run[a].rows


-----------------------------------------------------------------------------
(* Properties of the two operations on the shared table and spreadsheet *)

\* C24: an invocation whose read of the datastore at its start (the read of
\* the persisted row numbers in the incremental handler, the query of the
\* records in the exporter) was answered with a non-2xx status has returned
\* the top-level failure, success false with status 500, and has sent no
\* insert to the datastore and no write to the spreadsheet.
C24_FailedReadAborts ==
    \A r \in Runs :
        run[r].read = "notok" =>
            /\ run[r].pc = "done"
            /\ run[r].response = [status |-> 500, success |-> FALSE, inserted |-> 0]
            /\ CallsAt(run[r], "db.insert") = {}
            /\ CallsAt(run[r], "sheets.update") = {}
            /\ run[r].posts = <<>>
            /\ run[r].wrote = NoWrite

\* An incremental run on a spreadsheet with a data row and an export have
\* each had their read answered non-2xx and have responded 500, the read
\* being the last request of each
C24_Witness ==
    \E a, b \in Runs :
        /\ run[a].kind = "inc" /\ run[a].read = "notok"
        /\ run[a].calls = <<"sheets.get", "db.select">>
        /\ Len(run[a].rows) = 2
        /\ run[a].response.status = 500
        /\ run[b].kind = "exp" /\ run[b].read = "notok"
        /\ run[b].calls = <<"db.select">>
        /\ run[b].response.status = 500



\* Some invocation of the exporter takes the step
ExporterSteps == \E r \in Runs : run'[r] # run[r] /\ run'[r].kind = "exp"

\* C25: no step of the incremental handler or of the exporter removes or
\* changes a record of the table: the records persisted before the step are
\* persisted after it, in their places and with every field, sheet_row_number
\* and sheet_synced_at included, as they were; the incremental handler only
\* adds records after them, and a step of the exporter leaves the table as
\* it is.
C25_AppendOnlyAndReadOnly ==
    [][/\ Len(db') >= Len(db)
       /\ \A k \in 1..Len(db) : db'[k] = db[k]
       /\ ExporterSteps => db' = db]_vars

\* The table held one record; an incremental run has had the record of row
\* 2 accepted and an export has responded with success: the table holds
\* the first record as it was and the new one after it
C25_Witness ==
    \E a, b \in Runs :
        /\ run[a].kind = "inc" /\ run[a].pc = "done"
        /\ run[a].response = [status |-> 200, success |-> TRUE, inserted |-> 1]
        /\ run[b].kind = "exp" /\ run[b].pc = "done"
        /\ run[b].response.status = 200
        /\ Len(db) = 2
        /\ db[1] \in RecordPool
        /\ db[2].sheet_row_number = 2
        /\ db[2].sheet_synced_at = run[a].now



\* C26 as stated: the incremental handler builds and submits a record for
\* row r only if the answer to its read of the datastore held no record
\* with sheet_row_number r; and when the set of the synced rows cannot be
\* told from the answer, the answer being 2xx with a body that does not
\* parse or is no list, the run builds no record and sends no insert.
C26_NoInsertWithoutSyncedSet ==
    \A r \in Runs :
        /\ (run[r].kind = "inc" /\ run[r].read = "ok") =>
               RowNumbers(run[r].newRecords) \cap run[r].syncedRows = {}
        /\ (run[r].kind = "inc" /\ run[r].read = "garbled") =>
               /\ run[r].newRecords = <<>>
               /\ CallsAt(run[r], "db.insert") = {}



\* No data row of rows yields a record that passes the filter
NoValidRow(rows) == \A j \in 2..Len(rows) : ~KeptRow(rows, j)

\* C27: a full-reimport run sends the delete of the table only when a data
\* row of the spreadsheet it read passed the validation; a step of a run
\* that has read no row, or no valid data row, leaves the table as it is,
\* and such a run has sent neither a delete nor an insert.
C27_ClearsOnlyWithValidRow ==
    [][\A r \in Runs :
          (run'[r] # run[r] /\ run'[r].kind = "full") =>
              /\ CallsAt(run'[r], "db.delete") # {} => ~NoValidRow(run'[r].rows)
              /\ NoValidRow(run'[r].rows) =>
                     /\ db' = db
                     /\ CallsAt(run'[r], "db.delete") = {}
                     /\ CallsAt(run'[r], "db.insert") = {}]_vars

\* A full-reimport run has read a header and one data row without a name
\* and has responded with success after that one request, and the table
\* holds the record it held
C27_Witness ==
    \E r \in Runs :
        /\ run[r].kind = "full"
        /\ run[r].rows = <<HeaderRow, RowNoName>>
        /\ run[r].calls = <<"sheets.get">>
        /\ run[r].response = [status |-> 200, success |-> TRUE, inserted |-> 0]
        /\ Len(db) = 1
        /\ db[1] \in RecordPool



\* The numbers of the spreadsheet rows the export in slot e has written
WrittenByExport(e) ==
    IF run[e].kind = "exp" /\ run[e].wrote # NoWrite
    THEN run[e].wrote.first..run[e].wrote.last
    ELSE {}

=============================================================================
